---- MODULE Spec2Model ----
(***************************************************************************)
(* Model of the pihole-ingress-operator: the reconciliation engine         *)
(* (internal/controller) and the Pi-hole session client (internal/pihole). *)
(*                                                                         *)
(* Strings are sequences of tokens.  A hostname is one token               *)
(* ("app.local"); an address is spelled character by character             *)
(* ("1",".","1",".","1",".","1"), so that the parsers of the source are    *)
(* computed, not assumed.                                                  *)
(***************************************************************************)
EXTENDS Integers, Sequences, FiniteSets, TLC

(***************************************************************************)
(* Strings                                                                 *)
(***************************************************************************)
Comma == ","
Space == " "
Tab == "\t"
\* unicode.IsSpace, of which the model spells the space and the tab
Whitespace == { Space, Tab }
EmptyStr == << >>

Str(tok) == << tok >>

\* the address 1.1.1.1 / 2.2.2.2, character by character
IP1 == << "1", ".", "1", ".", "1", ".", "1" >>
IP2 == << "2", ".", "2", ".", "2", ".", "2" >>
\* a string that is no address
BadIP == << "b", "a", "d" >>

AppLocal == Str("app.local")
ApiLocal == Str("api.local")
DbLocal == Str("db.local")

RECURSIVE IndexFrom(_, _, _)
\* first position >= i of token c in s, or 0
IndexFrom(s, c, i) ==
    IF i > Len(s) THEN 0
    ELSE IF s[i] = c THEN i
    ELSE IndexFrom(s, c, i + 1)

RECURSIVE FirstOf(_, _, _)
\* first position >= i in s of a character of cs, or 0
FirstOf(s, cs, i) ==
    IF i > Len(s) THEN 0
    ELSE IF s[i] \in cs THEN i
    ELSE FirstOf(s, cs, i + 1)

Contains(seq, x) == \E i \in 1..Len(seq) : seq[i] = x

SeqToSet(seq) == { seq[i] : i \in 1..Len(seq) }

RECURSIVE Split(_, _)
\* strings.Split(s, sep) for a one-token separator
Split(s, sep) ==
    LET k == IndexFrom(s, sep, 1) IN
    IF k = 0 THEN << s >>
    ELSE << SubSeq(s, 1, k - 1) >> \o Split(SubSeq(s, k + 1, Len(s)), sep)

RECURSIVE TrimLeft(_)
TrimLeft(s) ==
    IF s # << >> /\ Head(s) \in Whitespace THEN TrimLeft(Tail(s)) ELSE s

RECURSIVE TrimRight(_)
TrimRight(s) ==
    IF s # << >> /\ s[Len(s)] \in Whitespace THEN TrimRight(SubSeq(s, 1, Len(s) - 1)) ELSE s

\* strings.TrimSpace
TrimSpace(s) == TrimRight(TrimLeft(s))

RECURSIVE Join(_, _)
\* strings.Join(parts, sep)
Join(parts, sep) ==
    IF parts = << >> THEN EmptyStr
    ELSE IF Len(parts) = 1 THEN parts[1]
    ELSE parts[1] \o << sep >> \o Join(Tail(parts), sep)

RECURSIVE Fields(_)
\* strings.Fields: the maximal runs of non-space characters
Fields(s) ==
    LET t == TrimLeft(s) IN
    IF t = << >> THEN << >>
    ELSE LET k == FirstOf(t, Whitespace, 1) IN
         IF k = 0 THEN << t >>
         ELSE << SubSeq(t, 1, k - 1) >> \o Fields(SubSeq(t, k + 1, Len(t)))

RECURSIVE DropEmptyTrimmed(_)
DropEmptyTrimmed(parts) ==
    IF parts = << >> THEN << >>
    ELSE LET p == TrimSpace(Head(parts)) IN
         (IF p # EmptyStr THEN << p >> ELSE << >>) \o DropEmptyTrimmed(Tail(parts))

\* common.go parseCommaSeparated
parseCommaSeparated(s) == DropEmptyTrimmed(Split(s, Comma))

(***************************************************************************)
(* net.ParseIP(ip).To4() != nil                                            *)
(***************************************************************************)
Digits == { "0", "1", "2", "3", "4", "5", "6", "7", "8", "9" }

DigitVal(c) ==
    CASE c = "0" -> 0 [] c = "1" -> 1 [] c = "2" -> 2 [] c = "3" -> 3
      [] c = "4" -> 4 [] c = "5" -> 5 [] c = "6" -> 6 [] c = "7" -> 7
      [] c = "8" -> 8 [] c = "9" -> 9

RECURSIVE DecVal(_)
DecVal(f) == IF f = << >> THEN 0 ELSE DecVal(SubSeq(f, 1, Len(f) - 1)) * 10 + DigitVal(f[Len(f)])

\* one dotted-decimal field: 1..3 digits, no leading zero, at most 255
IsIPv4Field(f) ==
    /\ Len(f) \in 1..3
    /\ \A i \in 1..Len(f) : f[i] \in Digits
    /\ (Len(f) > 1 => f[1] # "0")
    /\ DecVal(f) <= 255

\* netip parseIPv4: exactly four fields
parseIPv4(s) ==
    LET fs == Split(s, ".") IN
    /\ Len(fs) = 4
    /\ \A i \in 1..4 : IsIPv4Field(fs[i])

\* the four bytes of a string that parseIPv4 accepts
IPv4Bytes(s) == LET fs == Split(s, ".") IN [i \in 1..4 |-> DecVal(fs[i])]

HexDigits ==
    Digits \cup { "a", "b", "c", "d", "e", "f", "A", "B", "C", "D", "E", "F" }

HexDigitVal(c) ==
    CASE c \in Digits -> DigitVal(c)
      [] c \in { "a", "A" } -> 10 [] c \in { "b", "B" } -> 11
      [] c \in { "c", "C" } -> 12 [] c \in { "d", "D" } -> 13
      [] c \in { "e", "E" } -> 14 [] c \in { "f", "F" } -> 15

RECURSIVE HexLen(_)
\* how many hexadecimal digits s starts with
HexLen(s) ==
    IF s = << >> \/ Head(s) \notin HexDigits THEN 0 ELSE 1 + HexLen(Tail(s))

RECURSIVE HexVal(_)
HexVal(f) ==
    IF f = << >> THEN 0
    ELSE HexVal(SubSeq(f, 1, Len(f) - 1)) * 16 + HexDigitVal(f[Len(f)])

\* the result of a parser: the 16 bytes of the address, or none
NoAddr == [ok |-> FALSE, ip |-> << >>]
Addr(ip) == [ok |-> TRUE, ip |-> ip]
ZeroAddr == [i \in 1..16 |-> 0]

\* netip parseIPv6, the end: the whole string is used up, and an address
\* that is too short has its "::" expanded to zeros (n bytes at ellipsis)
parseIPv6_End(s, i, ellipsis, ip) ==
    IF s # << >> THEN NoAddr
    ELSE IF i < 16
         THEN (IF ellipsis < 0 THEN NoAddr
               ELSE LET n == 16 - i IN
                    Addr([j \in 1..16 |->
                            IF j <= ellipsis THEN ip[j]
                            ELSE IF j <= ellipsis + n THEN 0
                            ELSE ip[j - n]]))
         ELSE (IF ellipsis >= 0 THEN NoAddr ELSE Addr(ip))

RECURSIVE parseIPv6_Loop(_, _, _, _)
\* netip parseIPv6, the loop "for i < 16" over the colon-separated groups:
\* i bytes are filled, ellipsis is the byte offset of "::" (-1: none)
parseIPv6_Loop(s, i, ellipsis, ip) ==
    LET off == HexLen(s) IN
    IF off = 0 \/ off > 4 THEN NoAddr
    ELSE IF off < Len(s) /\ s[off + 1] = "."
         THEN \* an embedded IPv4 address closes the literal
              IF (ellipsis < 0 /\ i # 12) \/ i + 4 > 16 \/ ~parseIPv4(s) THEN NoAddr
              ELSE parseIPv6_End(<< >>, i + 4, ellipsis,
                                 [j \in 1..16 |->
                                    IF j \in (i + 1)..(i + 4) THEN IPv4Bytes(s)[j - i]
                                    ELSE ip[j]])
         ELSE LET acc == HexVal(SubSeq(s, 1, off))
                  ip2 == [ip EXCEPT ![i + 1] = acc \div 256, ![i + 2] = acc % 256]
                  rest == SubSeq(s, off + 1, Len(s))
              IN IF rest = << >> THEN parseIPv6_End(rest, i + 2, ellipsis, ip2)
                 ELSE IF rest[1] # ":" \/ Len(rest) = 1 THEN NoAddr
                 ELSE IF rest[2] = ":"
                      THEN (IF ellipsis >= 0 THEN NoAddr
                            ELSE IF Len(rest) = 2 \/ i + 2 >= 16
                                 THEN parseIPv6_End(SubSeq(rest, 3, Len(rest)),
                                                    i + 2, i + 2, ip2)
                                 ELSE parseIPv6_Loop(SubSeq(rest, 3, Len(rest)),
                                                     i + 2, i + 2, ip2))
                      ELSE IF i + 2 >= 16
                           THEN parseIPv6_End(Tail(rest), i + 2, ellipsis, ip2)
                           ELSE parseIPv6_Loop(Tail(rest), i + 2, ellipsis, ip2)

\* netip parseIPv6; net.ParseIP refuses an address with a zone ('%')
parseIPv6(s) ==
    IF IndexFrom(s, "%", 1) # 0 THEN NoAddr
    ELSE IF Len(s) >= 2 /\ s[1] = ":" /\ s[2] = ":"
         THEN (IF Len(s) = 2 THEN Addr(ZeroAddr)
               ELSE parseIPv6_Loop(SubSeq(s, 3, Len(s)), 0, 0, ZeroAddr))
         ELSE parseIPv6_Loop(s, 0, -1, ZeroAddr)

\* net.ParseIP (netip.ParseAddr): the first '.', ':' or '%' of the string
\* picks the parser; an IPv4 address comes back in its 16-byte form
ParseIP(s) ==
    LET k == FirstOf(s, { ".", ":", "%" }, 1) IN
    IF k = 0 \/ s[k] = "%" THEN NoAddr
    ELSE IF s[k] = "."
         THEN (IF parseIPv4(s)
               THEN Addr([j \in 1..16 |->
                            IF j <= 10 THEN 0
                            ELSE IF j <= 12 THEN 255
                            ELSE IPv4Bytes(s)[j - 12]])
               ELSE NoAddr)
         ELSE parseIPv6(s)

\* net.IP.To4() != nil for a 16-byte address: the IPv4-mapped prefix
\* ::ffff:0:0/96
To4NotNil(ip) ==
    /\ \A j \in 1..10 : ip[j] = 0
    /\ ip[11] = 255 /\ ip[12] = 255

\* common.go isValidIPv4
isValidIPv4(ip) ==
    LET parsed == ParseIP(ip) IN
    parsed.ok /\ To4NotNil(parsed.ip)

(***************************************************************************)
(* Bounds                                                                  *)
(***************************************************************************)
\* the store answers 401 to at most this many requests of one client call
MaxReauth == 2
\* changes that other actors (users, other DNS writers) make in one behaviour
MaxEnv == 2
\* seconds the clock may advance
MaxTime == 2
\* characters of the annotation values the extractor is applied to
MaxLen == 3
\* the statuses IsRetryable is applied to
MinStatus == 100
MaxStatus == 599

(***************************************************************************)
(* Program constants                                                       *)
(***************************************************************************)
StatusOK == 200
StatusCreated == 201
StatusNoContent == 204
StatusBadRequest == 400
StatusUnauthorized == 401
StatusForbidden == 403
StatusNotFound == 404
\* a 4xx status that the source names nowhere
StatusUnprocessableEntity == 422
StatusInternalServerError == 500
\* no HTTP response at all: httpClient.Do returned an error (timeout, refused)
NoResponse == 0

RequeueList == 30
RequeueAPIError == 30
RequeueManagedHosts == 10

\* IngressReconciler.DefaultTargetIP (validated by config.Validate)
DefaultTargetIP == IP1

Procs == { "w1", "w2" }
Objs == { "o1", "o2" }

(***************************************************************************)
(* Errors and results                                                      *)
(***************************************************************************)
\* a Go error value: nil, *pihole.APIError, or an error built by fmt.Errorf
\* (type "wrapError"; status is the status of the APIError it wraps, 0 if none)
Nil == [type |-> "nil", status |-> 0]
APIError(st) == [type |-> "APIError", status |-> st]
Errorf(cause) == [type |-> "wrapError", status |-> cause.status]
\* an error of the Kubernetes client (reason: "NotFound", "Conflict", "Other")
K8sError(reason) == [type |-> reason, status |-> 0]

\* the whole 4xx class is given up on
IsRetryable_No4xx(e) ==
    ~(e.status >= StatusBadRequest /\ e.status < StatusInternalServerError)

\* every status is retried, 400 too
IsRetryable_Always(e) == TRUE

\* client.go APIError.IsRetryable
IsRetryable(e) == e.status # StatusBadRequest

Result(after, err) == [requeueAfter |-> after, err |-> err]
NoResult == [requeueAfter |-> 0, err |-> Nil]

\* the error is unwrapped and an authentication failure given up on as well
handleAPIError_AuthTerminal(err) ==
    IF err.status \in { StatusBadRequest, StatusUnauthorized }
    THEN Result(0, Nil)
    ELSE Result(RequeueAPIError, err)

\* ingress_controller.go handleAPIError: the type assertion err.(*pihole.APIError)
\* holds for a bare APIError only, not for one wrapped by fmt.Errorf
handleAPIError(err) ==
    IF err.type = "APIError" /\ ~IsRetryable(err)
    THEN Result(0, Nil)
    ELSE Result(RequeueAPIError, err)

(***************************************************************************)
(* Routing objects                                                         *)
(***************************************************************************)
\* a map lookup v, ok := annotations[key]
Absent == [ok |-> FALSE, v |-> EmptyStr]
Value(s) == [ok |-> TRUE, v |-> s]

\* an object of the API server, or a copy of it held by a reconcile.  The
\* annotations and finalizers that belong to somebody else are one value,
\* foreign
NoObject ==
    [exists |-> FALSE, deleting |-> FALSE, finalizer |-> FALSE,
     register |-> Absent, targetIP |-> Absent, hosts |-> Absent, managed |-> Absent,
     specHosts |-> << >>, foreign |-> "none", current |-> FALSE]

\* every value but "false" and the empty string opts in
hasRegistrationAnnotation_Truthy(o) ==
    o.register.ok /\ o.register.v \notin { Str("false"), EmptyStr }

\* hasRegistrationAnnotation
hasRegistrationAnnotation(o) == o.register.ok /\ o.register.v = Str("true")

RECURSIVE NonEmpty(_)
NonEmpty(hs) ==
    IF hs = << >> THEN << >>
    ELSE (IF Head(hs) # EmptyStr THEN << Head(hs) >> ELSE << >>) \o NonEmpty(Tail(hs))

\* the override is put in front of the spec hostnames
extractHosts_Merge(k, o) ==
    (IF o.hosts.ok THEN parseCommaSeparated(o.hosts.v) ELSE << >>)
    \o (IF k = "TCPRoute" THEN << >> ELSE NonEmpty(o.specHosts))

\* extractHosts of IngressReconciler / HTTPRouteReconciler / GRPCRouteReconciler
\* / TLSRouteReconciler (spec hostnames) and of TCPRouteReconciler (none)
extractHosts(k, o) ==
    IF o.hosts.ok /\ o.hosts.v # EmptyStr
    THEN parseCommaSeparated(o.hosts.v)
    ELSE IF k = "TCPRoute" THEN << >> ELSE NonEmpty(o.specHosts)

\* an invalid override falls back to the default address
resolveTargetIP_Fallback(o) ==
    IF o.targetIP.ok /\ isValidIPv4(o.targetIP.v) THEN o.targetIP.v
    ELSE DefaultTargetIP

\* resolveTargetIP; the empty string signals the invalid override
resolveTargetIP(o) ==
    IF o.targetIP.ok /\ o.targetIP.v # EmptyStr
    THEN (IF isValidIPv4(o.targetIP.v) THEN o.targetIP.v ELSE EmptyStr)
    ELSE DefaultTargetIP

\* getManagedHosts
getManagedHosts(o) ==
    IF ~o.managed.ok \/ o.managed.v = EmptyStr THEN << >>
    ELSE parseCommaSeparated(o.managed.v)

(***************************************************************************)
(* DNS store                                                               *)
(***************************************************************************)
\* fmt.Sprintf("%s %s", ip, domain)
Entry(ip, domain) == ip \o << Space >> \o domain

RECURSIVE ParseHosts_ExactlyTwo(_)
\* only entries of exactly two fields are taken
ParseHosts_ExactlyTwo(hs) ==
    IF hs = << >> THEN << >>
    ELSE LET parts == Fields(Head(hs)) IN
         (IF Len(parts) = 2 THEN << [IP |-> parts[1], Domain |-> parts[2]] >> ELSE << >>)
         \o ParseHosts_ExactlyTwo(Tail(hs))

RECURSIVE ParseHosts(_)
\* ListRecords, the loop over configResp.Config.DNS.Hosts
ParseHosts(hs) ==
    IF hs = << >> THEN << >>
    ELSE LET parts == Fields(Head(hs)) IN
         (IF Len(parts) >= 2 THEN << [IP |-> parts[1], Domain |-> parts[2]] >> ELSE << >>)
         \o ParseHosts(Tail(hs))

\* the first record is taken, whatever its domain
FindEntry_Any(records, domain) ==
    IF records = << >> THEN EmptyStr
    ELSE Entry(Head(records).IP, Head(records).Domain)

RECURSIVE FindEntry(_, _)
\* DeleteRecord, the loop that sets entryToDelete ("" when there is no match)
FindEntry(records, domain) ==
    IF records = << >> THEN EmptyStr
    ELSE IF Head(records).Domain = domain
         THEN Entry(Head(records).IP, Head(records).Domain)
         ELSE FindEntry(Tail(records), domain)

RECURSIVE Remove(_, _)
\* the store without its entry e
Remove(hs, e) ==
    IF hs = << >> THEN << >>
    ELSE IF Head(hs) = e THEN Tail(hs)
    ELSE << Head(hs) >> \o Remove(Tail(hs), e)

(***************************************************************************)
(* State                                                                   *)
(***************************************************************************)
VARIABLES
    obj,          \* the routing objects held by the Kubernetes API server
    kind,         \* the kind of each object: which reconciler serves it
    store,        \* the Pi-hole hosts array: a sequence of "IP DOMAIN" strings
    sid, valid,   \* HTTPClient.sid and HTTPClient.valid (the cached session)
    now,          \* time.Now(), in seconds
    rec,          \* per worker: position and locals of its Reconcile call
    cl,           \* per worker: position and locals of its pihole client call
    calls,        \* per worker: CreateRecord/DeleteRecord calls of its reconcile
    everManaged,  \* per object: hostnames ever persisted in managed-hosts
    hist,         \* per worker: how its previous reconcile ended
    budget,       \* changes other actors may still make
    arg, out,     \* input and result of a function applied on its own
    mu            \* HTTPClient.mu: who holds the write lock, and how far it got

vars == << obj, kind, store, sid, valid, now, rec, cl, calls,
           everManaged, hist, budget, arg, out, mu >>

\* HTTPClient.mu unlocked
NoLock == [writer |-> "none", wrote |-> 0]

(***************************************************************************)
(* The pihole client (internal/pihole/client.go), one HTTP request a step  *)
(***************************************************************************)
NetError == [type |-> "netError", status |-> 0]

IdleCall ==
    [pc |-> "idle", op |-> "none", inner |-> FALSE, domain |-> EmptyStr,
     ip |-> EmptyStr, entry |-> EmptyStr, records |-> << >>, err |-> Nil,
     reauths |-> 0, sent |-> 0, pending |-> [sid |-> "", validity |-> 0]]

\* entry into ListRecords / CreateRecord / DeleteRecord / Healthy
NewCall(op, domain, ip) ==
    [IdleCall EXCEPT !.pc = "ensure", !.op = op, !.domain = domain, !.ip = ip]

\* the function in progress returns err; DeleteRecord wraps what its inner
\* ListRecords returned ("listing records to find entry: %w")
ReturnErr(c, e) ==
    [c EXCEPT !.pc = "ret", !.inner = FALSE,
              !.err = IF c.inner THEN Errorf(e) ELSE e]

ReturnNil(c) == [c EXCEPT !.pc = "ret", !.inner = FALSE, !.err = Nil]

\* ensureAuthenticated returned nil: DeleteRecord and Healthy go on to their
\* inner ListRecords (which checks the session again), the others send their
\* request
AfterEnsure(c) ==
    IF c.op \in { "delete", "health" } /\ ~c.inner
    THEN [c EXCEPT !.inner = TRUE, !.pc = "ensure"]
    ELSE [c EXCEPT !.pc = "do"]

\* the session is never checked
SessionValid_Always == TRUE

\* the session still counts at the instant it expires
SessionValid_AtExpiry == valid >= now /\ sid # ""

\* ensureAuthenticated, the read under RLock
SessionValid == valid > now /\ sid # ""

ensureAuthenticated(p) ==
    /\ cl[p].pc = "ensure"
    /\ cl' = [cl EXCEPT ![p] = IF SessionValid THEN AfterEnsure(@)
                                ELSE [@ EXCEPT !.pc = "auth"]]
    /\ UNCHANGED << mu, arg, out, obj, kind, store, sid, valid, now, rec, calls,
                    everManaged, hist, budget >>

\* authenticate up to the decoded response: POST /api/auth.  An error is
\* wrapped by the caller ("authentication failed" / "re-authentication failed")
authenticate_Do(p, statuses, sids, validities) ==
    /\ cl[p].pc \in { "auth", "reauth" }
    /\ \E st \in statuses :
         \/ /\ st = NoResponse
            /\ cl' = [cl EXCEPT ![p] = ReturnErr(@, Errorf(Errorf(NetError)))]
         \/ /\ st \notin { NoResponse, StatusOK }
            /\ cl' = [cl EXCEPT ![p] = ReturnErr(@, Errorf(APIError(st)))]
         \/ /\ st = StatusOK
            /\ \E s \in sids, v \in validities :
                 cl' = [cl EXCEPT ![p] =
                          [@ EXCEPT !.pc = IF @ = "auth" THEN "authStore" ELSE "reauthStore",
                                    !.pending = [sid |-> s, validity |-> v]]]
    /\ UNCHANGED << mu, arg, out, obj, kind, store, sid, valid, now, rec, calls,
                    everManaged, hist, budget >>

\* authenticate, the write under Lock: 80% of the advertised validity
authenticate_Store(p) ==
    /\ cl[p].pc \in { "authStore", "reauthStore" }
    /\ sid' = cl[p].pending.sid
    /\ valid' = now + (cl[p].pending.validity * 80) \div 100
    /\ cl' = [cl EXCEPT ![p] =
                LET c == [@ EXCEPT !.pending = IdleCall.pending] IN
                IF cl[p].pc = "authStore" THEN AfterEnsure(c)
                \* after a re-authentication the function calls itself
                ELSE [c EXCEPT !.pc = "ensure"]]
    /\ UNCHANGED << mu, arg, out, obj, kind, store, now, rec, calls,
                    everManaged, hist, budget >>

\* RLock is granted always: the reader does not wait for a writer
CanRLock_Always == TRUE

\* mu.RLock() is granted while no writer holds mu.  The reads of a reader are
\* one step, so readers are not counted.
CanRLock == mu.writer = "none"

\* mu.Lock() is granted while nobody holds mu
CanLock == mu.writer = "none"

\* ensureAuthenticated with its RLock: waits while a writer holds mu
ensureAuthenticated_RLock(p) ==
    /\ CanRLock
    /\ ensureAuthenticated(p)

\* authenticate, c.mu.Lock()
authenticate_Lock(p) ==
    /\ cl[p].pc \in { "authStore", "reauthStore" }
    /\ CanLock
    /\ mu' = [writer |-> p, wrote |-> 0]
    /\ UNCHANGED << arg, out, obj, kind, store, sid, valid, now, rec, cl, calls,
                    everManaged, hist, budget >>

\* authenticate, c.sid = authResp.Session.SID (c.csrf, never read, is left out)
authenticate_WriteSid(p) ==
    /\ mu.writer = p /\ mu.wrote = 0
    /\ sid' = cl[p].pending.sid
    /\ mu' = [mu EXCEPT !.wrote = 1]
    /\ UNCHANGED << arg, out, obj, kind, store, valid, now, rec, cl, calls,
                    everManaged, hist, budget >>

\* authenticate, c.valid = time.Now().Add(80% of the validity)
authenticate_WriteValid(p) ==
    /\ mu.writer = p /\ mu.wrote = 1
    /\ valid' = now + (cl[p].pending.validity * 80) \div 100
    /\ mu' = [mu EXCEPT !.wrote = 2]
    /\ UNCHANGED << arg, out, obj, kind, store, sid, now, rec, cl, calls,
                    everManaged, hist, budget >>

\* authenticate, c.mu.Unlock() and return nil
authenticate_Unlock(p) ==
    /\ mu.writer = p /\ mu.wrote = 2
    /\ mu' = NoLock
    /\ cl' = [cl EXCEPT ![p] =
                LET c == [@ EXCEPT !.pending = IdleCall.pending] IN
                IF cl[p].pc = "authStore" THEN AfterEnsure(c)
                ELSE [c EXCEPT !.pc = "ensure"]]
    /\ UNCHANGED << arg, out, obj, kind, store, sid, valid, now, rec, calls,
                    everManaged, hist, budget >>

\* a 401 answer: re-authenticate, then call again
Reauth(c) == [c EXCEPT !.pc = "reauth", !.reauths = @ + 1]

\* one more GET, PUT or DELETE of /api/config/dns/hosts has been sent
Sent(c) == [c EXCEPT !.sent = @ + 1]

\* ListRecords from the GET on; called by the reconciler, by DeleteRecord or
\* by Healthy (which turns its error into false)
ListRecords_Do(p, statuses) ==
    /\ cl[p].pc = "do"
    /\ cl[p].op = "list" \/ cl[p].inner
    /\ \E st \in statuses :
         \/ /\ st = NoResponse
            /\ cl' = [cl EXCEPT ![p] = Sent(ReturnErr(@, Errorf(NetError)))]
         \/ /\ st = StatusUnauthorized
            /\ cl[p].reauths < MaxReauth
            /\ cl' = [cl EXCEPT ![p] = Sent(Reauth(@))]
         \/ /\ st \notin { NoResponse, StatusUnauthorized, StatusOK }
            /\ cl' = [cl EXCEPT ![p] = Sent(ReturnErr(@, APIError(st)))]
         \/ /\ st = StatusOK
            /\ LET records == ParseHosts(store)
                   entry == FindEntry(records, cl[p].domain)
               IN cl' = [cl EXCEPT ![p] = Sent(
                           IF ~@.inner THEN [ReturnNil(@) EXCEPT !.records = records]
                           \* back in Healthy: err == nil
                           ELSE IF @.op = "health" THEN ReturnNil(@)
                           \* back in DeleteRecord
                           ELSE IF entry = EmptyStr THEN ReturnNil(@)
                           ELSE [@ EXCEPT !.inner = FALSE, !.pc = "do", !.entry = entry])]
    /\ UNCHANGED << mu, arg, out, obj, kind, store, sid, valid, now, rec, calls,
                    everManaged, hist, budget >>

\* CreateRecord from the PUT on
CreateRecord_Do(p, statuses) ==
    /\ cl[p].pc = "do"
    /\ cl[p].op = "create"
    /\ LET entry == Entry(cl[p].ip, cl[p].domain) IN
       \E st \in statuses :
         \/ /\ st = NoResponse
            /\ cl' = [cl EXCEPT ![p] = Sent(ReturnErr(@, Errorf(NetError)))]
            /\ store' = store
         \/ /\ st = StatusUnauthorized
            /\ cl[p].reauths < MaxReauth
            /\ cl' = [cl EXCEPT ![p] = Sent(Reauth(@))]
            /\ store' = store
         \/ /\ st \in { StatusOK, StatusCreated, StatusNoContent }
            /\ cl' = [cl EXCEPT ![p] = Sent(ReturnNil(@))]
            /\ store' = IF Contains(store, entry) THEN store ELSE Append(store, entry)
         \/ /\ st \notin { NoResponse, StatusUnauthorized, StatusOK, StatusCreated,
                           StatusNoContent }
            /\ cl' = [cl EXCEPT ![p] = Sent(ReturnErr(@, APIError(st)))]
            /\ store' = store
    /\ UNCHANGED << mu, arg, out, obj, kind, sid, valid, now, rec, calls,
                    everManaged, hist, budget >>

\* a 404 answer to the DELETE is an error like any other
DeleteAccepts_No404(st) == st \in { StatusOK, StatusNoContent }

\* DeleteRecord line 275: 200, 204 and 404 count as success
DeleteAccepts(st) == st \in { StatusOK, StatusNoContent, StatusNotFound }

\* DeleteRecord from the DELETE on; the store answers 404 for an entry it
\* does not hold, and 200 or 204 only for one it holds and removes
DeleteRecord_Do(p, statuses) ==
    /\ cl[p].pc = "do"
    /\ cl[p].op = "delete" /\ ~cl[p].inner
    /\ \E st \in statuses :
         \/ /\ st = NoResponse
            /\ cl' = [cl EXCEPT ![p] = Sent(ReturnErr(@, Errorf(NetError)))]
            /\ store' = store
         \/ /\ st = StatusUnauthorized
            /\ cl[p].reauths < MaxReauth
            /\ cl' = [cl EXCEPT ![p] = Sent(Reauth(@))]
            /\ store' = store
         \/ /\ st \notin { NoResponse, StatusUnauthorized }
            /\ st \in { StatusOK, StatusNoContent } => Contains(store, cl[p].entry)
            /\ st = StatusNotFound => ~Contains(store, cl[p].entry)
            /\ cl' = [cl EXCEPT ![p] = Sent(IF DeleteAccepts(st) THEN ReturnNil(@)
                                             ELSE ReturnErr(@, APIError(st)))]
            /\ store' = IF st \in { StatusOK, StatusNoContent }
                        THEN Remove(store, cl[p].entry) ELSE store
    /\ UNCHANGED << mu, arg, out, obj, kind, sid, valid, now, rec, calls,
                    everManaged, hist, budget >>

(***************************************************************************)
(* The reconciler (internal/controller): IngressReconciler.Reconcile and   *)
(* reconcileRoute, one call to the API server or to the pihole client a    *)
(* step                                                                    *)
(***************************************************************************)
IdleRec ==
    [pc |-> "idle", key |-> "o1", exit |-> "none", result |-> NoResult,
     ingress |-> NoObject, fresh |-> NoObject, extractedHosts |-> << >>,
     desiredHosts |-> << >>, targetIP |-> EmptyStr, currentRecords |-> << >>,
     managedHosts |-> << >>, i |-> 0]

\* what a step leaves behind: the reconcile frame, the client frame, the call log
Out(r, c, k) == [r |-> r, c |-> c, k |-> k]

\* a return statement of the reconcile; the locals die with the frame, the
\* desired state stays readable for the properties
Return(r, k, exit, res) ==
    Out([r EXCEPT !.pc = "done", !.exit = exit, !.result = res,
                  !.ingress = NoObject, !.fresh = NoObject,
                  !.extractedHosts = << >>, !.currentRecords = << >>,
                  !.managedHosts = << >>, !.i = 0],
        IdleCall, k)

\* r.PiholeClient.ListRecords / CreateRecord / DeleteRecord is entered
Call(r, k, pc, op, domain, ip) ==
    Out([r EXCEPT !.pc = pc], NewCall(op, domain, ip),
        IF op = "list" THEN k
        ELSE Append(k, [op |-> op, domain |-> domain, ip |-> ip, ret |-> "pending"]))

\* the call logged last has returned err
Returned(k, err) ==
    [k EXCEPT ![Len(k)].ret = IF err = Nil THEN "ok" ELSE "error"]

\* the first record of a domain is the one the map keeps
MapGet_First(records, host) ==
    IF \E i \in 1..Len(records) : records[i].Domain = host
    THEN Value(records[CHOOSE i \in 1..Len(records) :
                         /\ records[i].Domain = host
                         /\ \A j \in 1..(i - 1) : records[j].Domain # host].IP)
    ELSE Absent

RECURSIVE MapGet(_, _)
\* currentIP, exists := currentRecordMap[host]; the map is filled in list
\* order, so the last record of a domain is the one it keeps
MapGet(records, host) ==
    IF records = << >> THEN Absent
    ELSE IF records[Len(records)].Domain = host THEN Value(records[Len(records)].IP)
    ELSE MapGet(SubSeq(records, 1, Len(records) - 1), host)

\* the comparison dropped: every desired host is synced again
NeedsSync_Always(cur, targetIP) == TRUE

\* Reconcile lines 104-131: does the sync loop touch this host?
NeedsSync(cur, targetIP) == ~cur.ok \/ cur.v # targetIP

\* Reconcile lines 112-119: is the old record deleted first?
NeedsDelete(cur, targetIP) == cur.ok /\ cur.v # targetIP

\* every managed host is pruned, desired or not
NeedsPrune_Always(host, desiredHosts) == TRUE

\* Reconcile line 140: is this managed host pruned?
NeedsPrune(host, desiredHosts) == ~Contains(desiredHosts, host)

RECURSIVE PruneFrom(_, _, _)
\* the loop "for _, host := range managedHosts" from index j, up to its next
\* DeleteRecord or, past its end, to updateManagedHosts
PruneFrom(r, k, j) ==
    IF j > Len(r.managedHosts) THEN Out([r EXCEPT !.pc = "umhGet", !.i = 0], IdleCall, k)
    ELSE IF NeedsPrune(r.managedHosts[j], r.desiredHosts)
         THEN Call([r EXCEPT !.i = j], k, "prune", "delete", r.managedHosts[j], EmptyStr)
         ELSE PruneFrom(r, k, j + 1)

RECURSIVE SyncFrom(_, _, _)
\* the loop "for _, host := range desiredHosts" from index j, up to its next
\* client call or, past its end, into the prune loop
SyncFrom(r, k, j) ==
    IF j > Len(r.desiredHosts) THEN PruneFrom(r, k, 1)
    ELSE LET host == r.desiredHosts[j]
             cur == MapGet(r.currentRecords, host)
         IN IF ~NeedsSync(cur, r.targetIP) THEN SyncFrom(r, k, j + 1)
            ELSE IF NeedsDelete(cur, r.targetIP)
                 THEN Call([r EXCEPT !.i = j], k, "syncDelete", "delete", host, EmptyStr)
                 ELSE Call([r EXCEPT !.i = j], k, "syncCreate", "create", host, r.targetIP)

\* the cleanup loop stops one host short
CleanupFrom_SkipLast(r, k, j) ==
    IF j >= Len(r.managedHosts) THEN Out([r EXCEPT !.pc = "removeFinalizer", !.i = 0], IdleCall, k)
    ELSE Call([r EXCEPT !.i = j], k, "cleanup", "delete", r.managedHosts[j], EmptyStr)

\* handleDeletion / handleRouteDeletion, the cleanup loop from index j
CleanupFrom(r, k, j) ==
    IF j > Len(r.managedHosts) THEN Out([r EXCEPT !.pc = "removeFinalizer", !.i = 0], IdleCall, k)
    ELSE Call([r EXCEPT !.i = j], k, "cleanup", "delete", r.managedHosts[j], EmptyStr)

\* handleDeletion / handleRouteDeletion up to its first call
handleDeletion(r, k) ==
    IF ~r.ingress.finalizer THEN Return(r, k, "noFinalizer", Result(0, Nil))
    ELSE CleanupFrom([r EXCEPT !.managedHosts = getManagedHosts(r.ingress)], k, 1)

\* an object without hosts is cleaned up like one that opted out
DesiredState_CleanupWhenEmpty(r, k, knd) ==
    LET hostsNow == IF knd = "Ingress" THEN extractHosts(knd, r.ingress)
                    ELSE r.extractedHosts
        ip == resolveTargetIP(r.ingress)
    IN IF Len(hostsNow) = 0 THEN handleDeletion(r, k)
       ELSE IF ip = EmptyStr
            THEN Return([r EXCEPT !.desiredHosts = hostsNow], k, "invalidIP", Result(0, Nil))
            ELSE Call([r EXCEPT !.desiredHosts = hostsNow, !.targetIP = ip], k,
                      "list", "list", EmptyStr, EmptyStr)

\* Reconcile lines 77-96 / reconcileRoute lines 281-300: the desired state,
\* up to the call of ListRecords.  The Ingress reconciler extracts the hosts
\* from the object it holds now, reconcileRoute was handed them by its caller
DesiredState(r, k, knd) ==
    LET hostsNow == IF knd = "Ingress" THEN extractHosts(knd, r.ingress)
                    ELSE r.extractedHosts
        ip == resolveTargetIP(r.ingress)
    IN IF Len(hostsNow) = 0 THEN Return(r, k, "noHosts", Result(0, Nil))
       ELSE IF ip = EmptyStr
            THEN Return([r EXCEPT !.desiredHosts = hostsNow], k, "invalidIP", Result(0, Nil))
            ELSE Call([r EXCEPT !.desiredHosts = hostsNow, !.targetIP = ip], k,
                      "list", "list", EmptyStr, EmptyStr)

\* the sync starts without the finalizer being added
Dispatch_NoFinalizer(r, k, knd) ==
    IF r.ingress.deleting THEN handleDeletion(r, k)
    ELSE IF ~hasRegistrationAnnotation(r.ingress)
         THEN (IF r.ingress.finalizer THEN handleDeletion(r, k)
               ELSE Return(r, k, "notRegistered", Result(0, Nil)))
         ELSE DesiredState(r, k, knd)

\* Reconcile lines 49-75 / reconcileRoute lines 251-279, after the first Get
Dispatch(r, k, knd) ==
    IF r.ingress.deleting THEN handleDeletion(r, k)
    ELSE IF ~hasRegistrationAnnotation(r.ingress)
         THEN (IF r.ingress.finalizer THEN handleDeletion(r, k)
               ELSE Return(r, k, "notRegistered", Result(0, Nil)))
         ELSE IF ~r.ingress.finalizer
              THEN Out([r EXCEPT !.pc = "addFinalizer"], IdleCall, k)
              ELSE DesiredState(r, k, knd)

Running(r) == r.pc \notin { "idle", "done" }

\* controller-runtime queues the key again after an error or a RequeueAfter
Requeued(r) == r.pc = "done" /\ (r.result.err # Nil \/ r.result.requeueAfter > 0)

Apply(p, step) ==
    /\ rec' = [rec EXCEPT ![p] = step.r]
    /\ cl' = [cl EXCEPT ![p] = step.c]
    /\ calls' = [calls EXCEPT ![p] = step.k]

\* the object as a client reads it
Fetched(o) == [obj[o] EXCEPT !.current = TRUE]

\* the API server takes a write from a stale copy
UpdateError_NoConflict(o, copy) ==
    IF ~obj[o].exists THEN K8sError("NotFound") ELSE Nil

\* client.Update: NotFound for a missing object, Conflict for a stale
\* resourceVersion
UpdateError(o, copy) ==
    IF ~obj[o].exists THEN K8sError("NotFound")
    ELSE IF ~copy.current THEN K8sError("Conflict")
    ELSE Nil

\* a write to object o makes every copy of it held by another worker stale
StaleCopies(rs, o, p) ==
    [q \in Procs |->
        IF q # p /\ rs[q].key = o
        THEN [rs[q] EXCEPT !.ingress.current = FALSE, !.fresh.current = FALSE]
        ELSE rs[q]]

\* what a worker remembers of its previous reconcile, when that was of the
\* same object and got as far as its desired state (H, A): the desired state,
\* and whether the reconcile ran to its last line.  It is kept only where a
\* property compares two reconciles
InitHist == [ok |-> FALSE, desiredHosts |-> << >>, targetIP |-> EmptyStr]

\* the work queue hands the key of o to worker p: after a watch event, a
\* periodic resync or a requeue, that is at any time, but never while another
\* worker reconciles the same key
StartReconcile(p, o, remember) ==
    /\ ~Running(rec[p])
    /\ \A q \in Procs \ { p } : ~(Running(rec[q]) /\ rec[q].key = o)
    /\ rec' = [rec EXCEPT ![p] = [IdleRec EXCEPT !.pc = "get", !.key = o]]
    /\ hist' = [hist EXCEPT ![p] =
                  IF remember /\ rec[p].targetIP # EmptyStr /\ rec[p].key = o
                  THEN [ok |-> rec[p].exit = "ok", desiredHosts |-> rec[p].desiredHosts,
                        targetIP |-> rec[p].targetIP]
                  ELSE InitHist]
    /\ calls' = [calls EXCEPT ![p] = << >>]
    /\ UNCHANGED << mu, arg, out, obj, kind, store, sid, valid, now, cl, everManaged, budget >>

\* Reconcile lines 39-61 and on to the next call / the Reconcile of a route
\* kind (r.Get, r.extractHosts) and reconcileRoute lines 251-263
Reconcile_Get(p, faults) ==
    /\ rec[p].pc = "get"
    /\ LET o == rec[p].key IN
       \E f \in faults :
         \/ /\ f = "Other"
            /\ Apply(p, Return(rec[p], calls[p], "getError", Result(0, K8sError("Other"))))
         \/ /\ f = "none"
            /\ ~obj[o].exists
            /\ Apply(p, Return(rec[p], calls[p], "notFound", Result(0, Nil)))
         \/ /\ f = "none"
            /\ obj[o].exists
            /\ Apply(p, Dispatch([rec[p] EXCEPT
                                    !.ingress = Fetched(o),
                                    !.extractedHosts =
                                        IF kind[o] = "Ingress" THEN << >>
                                        ELSE extractHosts(kind[o], Fetched(o))],
                                 calls[p], kind[o]))
    /\ UNCHANGED << mu, arg, out, obj, kind, store, sid, valid, now, everManaged,
                    hist, budget >>

\* Reconcile lines 64-70 / reconcileRoute lines 266-272: AddFinalizer, Update
Reconcile_AddFinalizer(p, faults) ==
    /\ rec[p].pc = "addFinalizer"
    /\ LET o == rec[p].key
           copy == [rec[p].ingress EXCEPT !.finalizer = TRUE]
           err == UpdateError(o, copy)
       IN \E f \in faults :
            \/ /\ f = "Other"
               /\ Apply(p, Return(rec[p], calls[p], "addFinalizerError",
                                  Result(0, K8sError("Other"))))
               /\ obj' = obj
            \/ /\ f = "none"
               /\ err # Nil
               /\ Apply(p, Return(rec[p], calls[p], "addFinalizerError", Result(0, err)))
               /\ obj' = obj
            \/ /\ f = "none"
               /\ err = Nil
               /\ obj' = [obj EXCEPT ![o] = copy]
               /\ rec' = [StaleCopies(rec, o, p) EXCEPT
                            ![p] = [@ EXCEPT !.pc = "refetch", !.ingress = copy]]
               /\ UNCHANGED << cl, calls >>
    /\ UNCHANGED << mu, arg, out, kind, store, sid, valid, now, everManaged, hist, budget >>

\* Reconcile lines 71-74 and on to the next call / reconcileRoute lines 273-279
Reconcile_Refetch(p, faults) ==
    /\ rec[p].pc = "refetch"
    /\ LET o == rec[p].key IN
       \E f \in faults :
         \/ /\ f = "Other"
            /\ Apply(p, Return(rec[p], calls[p], "refetchError", Result(0, K8sError("Other"))))
         \/ /\ f = "none"
            /\ ~obj[o].exists
            /\ Apply(p, Return(rec[p], calls[p], "refetchError",
                               Result(0, K8sError("NotFound"))))
         \/ /\ f = "none"
            /\ obj[o].exists
            /\ Apply(p, DesiredState([rec[p] EXCEPT !.ingress = Fetched(o)], calls[p], kind[o]))
    /\ UNCHANGED << mu, arg, out, obj, kind, store, sid, valid, now, everManaged,
                    hist, budget >>

\* the error of the list is handed to handleAPIError like that of a create
ListFailed_Classified(r, k, err) == Return(r, k, "listError", handleAPIError(err))

\* Reconcile lines 93-96: ListRecords failed
ListFailed(r, k, err) == Return(r, k, "listError", Result(RequeueList, err))

\* Reconcile lines 92-131, from the return of ListRecords to the next call
Reconcile_List(p) ==
    /\ rec[p].pc = "list"
    /\ cl[p].pc = "ret"
    /\ Apply(p, IF cl[p].err # Nil
                THEN ListFailed(rec[p], calls[p], cl[p].err)
                ELSE SyncFrom([rec[p] EXCEPT
                                 !.currentRecords = cl[p].records,
                                 !.managedHosts = getManagedHosts(rec[p].ingress)],
                              calls[p], 1))
    /\ UNCHANGED << mu, arg, out, obj, kind, store, sid, valid, now, everManaged,
                    hist, budget >>

\* Reconcile lines 114-122: DeleteRecord of the old record returned
Reconcile_SyncDelete(p) ==
    /\ rec[p].pc = "syncDelete"
    /\ cl[p].pc = "ret"
    /\ Apply(p, IF cl[p].err # Nil
                THEN Return(rec[p], Returned(calls[p], cl[p].err), "apiError", handleAPIError(cl[p].err))
                ELSE Call(rec[p], Returned(calls[p], cl[p].err), "syncCreate", "create",
                          rec[p].desiredHosts[rec[p].i], rec[p].targetIP))
    /\ UNCHANGED << mu, arg, out, obj, kind, store, sid, valid, now, everManaged,
                    hist, budget >>

\* Reconcile lines 122-131: CreateRecord returned, the loop goes on
Reconcile_SyncCreate(p) ==
    /\ rec[p].pc = "syncCreate"
    /\ cl[p].pc = "ret"
    /\ Apply(p, IF cl[p].err # Nil
                THEN Return(rec[p], Returned(calls[p], cl[p].err), "apiError", handleAPIError(cl[p].err))
                ELSE SyncFrom(rec[p], Returned(calls[p], cl[p].err), rec[p].i + 1))
    /\ UNCHANGED << mu, arg, out, obj, kind, store, sid, valid, now, everManaged,
                    hist, budget >>

\* the prune loop goes on over a failed delete
PruneFailed_Ignored(err) == FALSE

\* Reconcile line 141: if err := r.PiholeClient.DeleteRecord(ctx, host); err != nil
PruneFailed(err) == err # Nil

\* Reconcile lines 139-147: DeleteRecord of a stale host returned
Reconcile_Prune(p) ==
    /\ rec[p].pc = "prune"
    /\ cl[p].pc = "ret"
    /\ Apply(p, IF PruneFailed(cl[p].err)
                THEN Return(rec[p], Returned(calls[p], cl[p].err), "apiError", handleAPIError(cl[p].err))
                ELSE PruneFrom(rec[p], Returned(calls[p], cl[p].err), rec[p].i + 1))
    /\ UNCHANGED << mu, arg, out, obj, kind, store, sid, valid, now, everManaged,
                    hist, budget >>

\* the first host is left out of the annotation
ManagedValue_DropFirst(hosts) ==
    IF Len(hosts) <= 1 THEN Absent ELSE Value(Join(Tail(hosts), Comma))

\* updateManagedHosts, the value written for the hosts (the key is deleted
\* for an empty list)
ManagedValue(hosts) ==
    IF Len(hosts) = 0 THEN Absent ELSE Value(Join(hosts, Comma))

\* the failure is logged and the reconcile ends without error
ManagedHostsFailed_Swallowed(r, k, err) == Return(r, k, "managedHostsError", Result(0, Nil))

\* Reconcile lines 150-153: updateManagedHosts failed
ManagedHostsFailed(r, k, err) ==
    Return(r, k, "managedHostsError", Result(RequeueManagedHosts, err))

\* updateManagedHosts lines 252-256 (and Reconcile lines 150-153): Get fresh
updateManagedHosts_Get(p, faults) ==
    /\ rec[p].pc = "umhGet"
    /\ LET o == rec[p].key IN
       \E f \in faults :
         \/ /\ f = "Other"
            /\ Apply(p, ManagedHostsFailed(rec[p], calls[p], K8sError("Other")))
         \/ /\ f = "none"
            /\ ~obj[o].exists
            /\ Apply(p, ManagedHostsFailed(rec[p], calls[p], K8sError("NotFound")))
         \/ /\ f = "none"
            /\ obj[o].exists
            /\ Apply(p, Out([rec[p] EXCEPT !.pc = "umhUpdate", !.fresh = Fetched(o)],
                            IdleCall, calls[p]))
    /\ UNCHANGED << mu, arg, out, obj, kind, store, sid, valid, now, everManaged,
                    hist, budget >>

\* updateManagedHosts lines 258-268 (and Reconcile lines 150-155): Update fresh
updateManagedHosts_Update(p, faults) ==
    /\ rec[p].pc = "umhUpdate"
    /\ LET o == rec[p].key
           copy == [rec[p].fresh EXCEPT !.managed = ManagedValue(rec[p].desiredHosts)]
           err == UpdateError(o, copy)
       IN \E f \in faults :
            \/ /\ f = "Other"
               /\ Apply(p, ManagedHostsFailed(rec[p], calls[p], K8sError("Other")))
               /\ UNCHANGED << obj, everManaged >>
            \/ /\ f = "none"
               /\ err # Nil
               /\ Apply(p, ManagedHostsFailed(rec[p], calls[p], err))
               /\ UNCHANGED << obj, everManaged >>
            \/ /\ f = "none"
               /\ err = Nil
               /\ obj' = [obj EXCEPT ![o] = copy]
               /\ everManaged' = [everManaged EXCEPT
                                    ![o] = @ \cup SeqToSet(getManagedHosts(copy))]
               /\ LET done == Return(rec[p], calls[p], "ok", Result(0, Nil)) IN
                    /\ rec' = [StaleCopies(rec, o, p) EXCEPT ![p] = done.r]
                    /\ cl' = [cl EXCEPT ![p] = done.c]
                    /\ calls' = [calls EXCEPT ![p] = done.k]
    /\ UNCHANGED << mu, arg, out, kind, store, sid, valid, now, hist, budget >>

\* handleDeletion lines 167-173 / handleRouteDeletion lines 378-384:
\* DeleteRecord of a managed host returned
handleDeletion_Delete(p) ==
    /\ rec[p].pc = "cleanup"
    /\ cl[p].pc = "ret"
    /\ Apply(p, IF cl[p].err # Nil
                THEN Return(rec[p], Returned(calls[p], cl[p].err), "cleanupError", handleAPIError(cl[p].err))
                ELSE CleanupFrom(rec[p], Returned(calls[p], cl[p].err), rec[p].i + 1))
    /\ UNCHANGED << mu, arg, out, obj, kind, store, sid, valid, now, everManaged,
                    hist, budget >>

\* handleDeletion lines 176-183 / handleRouteDeletion lines 387-394:
\* RemoveFinalizer, Update.  The API server removes a deleted object with its
\* last finalizer
handleDeletion_Update(p, faults) ==
    /\ rec[p].pc = "removeFinalizer"
    /\ LET o == rec[p].key
           copy == [rec[p].ingress EXCEPT !.finalizer = FALSE]
           err == UpdateError(o, copy)
       IN \E f \in faults :
            \/ /\ f = "Other"
               /\ Apply(p, Return(rec[p], calls[p], "removeFinalizerError",
                                  Result(0, K8sError("Other"))))
               /\ obj' = obj
            \/ /\ f = "none"
               /\ err # Nil
               /\ Apply(p, Return(rec[p], calls[p], "removeFinalizerError", Result(0, err)))
               /\ obj' = obj
            \/ /\ f = "none"
               /\ err = Nil
               /\ obj' = [obj EXCEPT ![o] = IF copy.deleting THEN NoObject ELSE copy]
               /\ LET done == Return(rec[p], calls[p], "cleanedUp", Result(0, Nil)) IN
                    /\ rec' = [StaleCopies(rec, o, p) EXCEPT ![p] = done.r]
                    /\ cl' = [cl EXCEPT ![p] = done.c]
                    /\ calls' = [calls EXCEPT ![p] = done.k]
    /\ UNCHANGED << mu, arg, out, kind, store, sid, valid, now, everManaged, hist, budget >>

(***************************************************************************)
(* Other actors                                                            *)
(***************************************************************************)
\* every running reconcile's copy of o is stale after somebody else's write
AllStale(rs, o) ==
    [q \in Procs |->
        IF rs[q].key = o
        THEN [rs[q] EXCEPT !.ingress.current = FALSE, !.fresh.current = FALSE]
        ELSE rs[q]]

\* a user edits the annotations or the spec of an object
UserEdit(o, registers, targets, overrides, specs) ==
    /\ budget > 0
    /\ obj[o].exists
    /\ \E new \in
            { [obj[o] EXCEPT !.register = v] : v \in registers }
            \cup { [obj[o] EXCEPT !.targetIP = v] : v \in targets }
            \cup { [obj[o] EXCEPT !.hosts = v] : v \in overrides }
            \cup { [obj[o] EXCEPT !.specHosts = v] : v \in specs } :
         /\ new # obj[o]
         /\ obj' = [obj EXCEPT ![o] = new]
    /\ rec' = AllStale(rec, o)
    /\ budget' = budget - 1
    /\ UNCHANGED << mu, arg, out, kind, store, sid, valid, now, cl, calls, everManaged, hist >>

\* somebody adds or removes an annotation or a finalizer of their own
ForeignEdit(o) ==
    /\ budget > 0
    /\ obj[o].exists
    /\ obj' = [obj EXCEPT ![o].foreign = IF @ = "none" THEN "some" ELSE "none"]
    /\ rec' = AllStale(rec, o)
    /\ budget' = budget - 1
    /\ UNCHANGED << mu, arg, out, kind, store, sid, valid, now, cl, calls, everManaged, hist >>

\* a user deletes an object: the API server sets the deletion timestamp while
\* a finalizer is left, and removes the object otherwise
UserDelete(o) ==
    /\ budget > 0
    /\ obj[o].exists /\ ~obj[o].deleting
    /\ obj' = [obj EXCEPT ![o] = IF @.finalizer THEN [@ EXCEPT !.deleting = TRUE]
                                  ELSE NoObject]
    /\ rec' = AllStale(rec, o)
    /\ budget' = budget - 1
    /\ UNCHANGED << mu, arg, out, kind, store, sid, valid, now, cl, calls, everManaged, hist >>

\* somebody strips the finalizers of an object and deletes it (or the object
\* is deleted by force): the API server removes it whatever it carries, and
\* the next Get of a reconcile under way answers NotFound
UserForceDelete(o) ==
    /\ budget > 0
    /\ obj[o].exists
    /\ obj' = [obj EXCEPT ![o] = NoObject]
    /\ rec' = AllStale(rec, o)
    /\ budget' = budget - 1
    /\ UNCHANGED << mu, arg, out, kind, store, sid, valid, now, cl, calls, everManaged, hist >>

\* another writer of the DNS store adds an entry
OtherPut(entries) ==
    /\ budget > 0
    /\ \E e \in entries :
         /\ ~Contains(store, e)
         /\ store' = Append(store, e)
    /\ budget' = budget - 1
    /\ UNCHANGED << mu, arg, out, obj, kind, sid, valid, now, rec, cl, calls, everManaged, hist >>

\* another writer of the DNS store removes an entry
OtherRemove ==
    /\ budget > 0
    /\ \E i \in 1..Len(store) : store' = Remove(store, store[i])
    /\ budget' = budget - 1
    /\ UNCHANGED << mu, arg, out, obj, kind, sid, valid, now, rec, cl, calls, everManaged, hist >>

(***************************************************************************)
(* Spec: one worker reconciling one object against a store that may fail   *)
(***************************************************************************)
RegisterInputs == { Absent, Value(Str("true")) }
TargetInputs == { Absent, Value(IP2), Value(BadIP) }
\* "api.local, " spells the one host api.local
OverrideInputs == { Absent, Value(ApiLocal \o << Comma, Space >>) }
SpecInputs == { << >>, << AppLocal >>, << AppLocal, ApiLocal >> }
Kinds == { "Ingress", "HTTPRoute" }
\* what another writer may put into the store
OtherEntries == { Entry(IP2, AppLocal) }

\* the answers of the store.  Under Spec it rejects credentials, fails and
\* times out, but it answers no 401 to a request that carries a session;
\* SpecClient below adds those answers
AuthStatuses == { StatusOK, StatusUnauthorized, NoResponse }
ListStatuses == { StatusOK, StatusBadRequest, StatusInternalServerError, NoResponse }
CreateStatuses == { StatusCreated, StatusBadRequest, StatusUnprocessableEntity,
                    StatusInternalServerError, NoResponse }
DeleteStatuses == { StatusNoContent, StatusNotFound, StatusBadRequest,
                    StatusInternalServerError, NoResponse }
SIDs == { "sid1" }
\* advertised validities: 300 seconds outlast the run, 1 second leaves
\* 1*80/100 = 0 seconds, a session that is never found valid again
Validities == { 1, 300 }
K8sFaults == { "none", "Other" }

\* the store before the operator starts: empty, or with a record that
\* another writer made
InitStores == { << >>, << Entry(IP2, AppLocal) >> }

\* a routing object as a user creates it
NewObject(register, target, override, spec) ==
    [NoObject EXCEPT !.exists = TRUE, !.current = TRUE, !.register = register,
                     !.targetIP = target, !.hosts = override, !.specHosts = spec]

Init ==
    /\ \E k \in Kinds, spec \in SpecInputs :
         /\ kind = [o \in Objs |-> k]
         /\ obj = [o \in Objs |->
                     IF o = "o1" THEN NewObject(Value(Str("true")), Absent, Absent, spec)
                     ELSE NoObject]
    /\ store \in InitStores
    /\ sid = ""
    /\ valid = 0
    /\ now = 0
    /\ rec = [p \in Procs |-> IdleRec]
    /\ cl = [p \in Procs |-> IdleCall]
    /\ calls = [p \in Procs |-> << >>]
    /\ everManaged = [o \in Objs |-> { }]
    /\ hist = [p \in Procs |-> InitHist]
    /\ budget = MaxEnv
    /\ arg = 0
    /\ out = "none"
    /\ mu = NoLock

Next ==
    \/ StartReconcile("w1", "o1", FALSE)
    \/ Reconcile_Get("w1", K8sFaults)
    \/ Reconcile_AddFinalizer("w1", K8sFaults)
    \/ Reconcile_Refetch("w1", K8sFaults)
    \/ Reconcile_List("w1")
    \/ Reconcile_SyncDelete("w1")
    \/ Reconcile_SyncCreate("w1")
    \/ Reconcile_Prune("w1")
    \/ updateManagedHosts_Get("w1", K8sFaults)
    \/ updateManagedHosts_Update("w1", K8sFaults)
    \/ handleDeletion_Delete("w1")
    \/ handleDeletion_Update("w1", K8sFaults)
    \/ ensureAuthenticated("w1")
    \/ authenticate_Do("w1", AuthStatuses, SIDs, Validities)
    \/ authenticate_Store("w1")
    \/ ListRecords_Do("w1", ListStatuses)
    \/ CreateRecord_Do("w1", CreateStatuses)
    \/ DeleteRecord_Do("w1", DeleteStatuses)
    \/ UserEdit("o1", RegisterInputs, TargetInputs, OverrideInputs, SpecInputs)
    \/ UserDelete("o1")
    \/ ForeignEdit("o1")
    \/ OtherPut(OtherEntries)
    \/ OtherRemove

Spec == Init /\ [][Next]_vars

(***************************************************************************)
(* SpecVanish: Spec with an object that may vanish at any time, also while *)
(* it carries the finalizer and a reconcile of it is under way             *)
(***************************************************************************)
NextVanish == Next \/ UserForceDelete("o1")

SpecVanish == Init /\ [][NextVanish]_vars

TypeOK ==
    /\ budget \in 0..MaxEnv
    /\ \A p \in Procs : cl[p].reauths \in 0..MaxReauth

(***************************************************************************)
(* SpecTwice: one object that nobody edits and a store that nobody else    *)
(* writes, reconciled again and again; the store and the API server may    *)
(* fail                                                                    *)
(***************************************************************************)
\* the store before the first reconcile; it may hold two records of one
\* domain
TwiceStores == InitStores \cup { << Entry(IP1, AppLocal), Entry(IP2, AppLocal) >> }

InitTwice ==
    /\ \E k \in Kinds, spec \in SpecInputs, ov \in OverrideInputs,
          t \in { Absent, Value(IP2) } :
         /\ kind = [o \in Objs |-> k]
         /\ obj = [o \in Objs |->
                     IF o = "o1" THEN NewObject(Value(Str("true")), t, ov, spec)
                     ELSE NoObject]
    /\ store \in TwiceStores
    /\ sid = ""
    /\ valid = 0
    /\ now = 0
    /\ rec = [p \in Procs |-> IdleRec]
    /\ cl = [p \in Procs |-> IdleCall]
    /\ calls = [p \in Procs |-> << >>]
    /\ everManaged = [o \in Objs |-> { }]
    /\ hist = [p \in Procs |-> InitHist]
    /\ budget = 0
    /\ arg = 0
    /\ out = "none"
    /\ mu = NoLock

NextTwice ==
    \/ StartReconcile("w1", "o1", TRUE)
    \/ Reconcile_Get("w1", K8sFaults)
    \/ Reconcile_AddFinalizer("w1", K8sFaults)
    \/ Reconcile_Refetch("w1", K8sFaults)
    \/ Reconcile_List("w1")
    \/ Reconcile_SyncDelete("w1")
    \/ Reconcile_SyncCreate("w1")
    \/ updateManagedHosts_Get("w1", K8sFaults)
    \/ updateManagedHosts_Update("w1", K8sFaults)
    \/ ensureAuthenticated("w1")
    \/ authenticate_Do("w1", AuthStatuses, SIDs, Validities)
    \/ authenticate_Store("w1")
    \/ ListRecords_Do("w1", ListStatuses)
    \/ CreateRecord_Do("w1", CreateStatuses)
    \/ DeleteRecord_Do("w1", DeleteStatuses)

SpecTwice == InitTwice /\ [][NextTwice]_vars

(***************************************************************************)
(* SpecClient: the pihole client on its own.  Its callers (the reconcilers *)
(* and the health check) enter the operations of the Client interface in   *)
(* any order, the clock advances, and the store may answer 401 at any time *)
(***************************************************************************)
\* a caller enters ListRecords, CreateRecord, DeleteRecord or Healthy
Call_Start(p, ops, domains, ips) ==
    /\ rec[p].pc = "idle"
    /\ cl[p].pc = "idle"
    /\ \E op \in ops :
         \/ /\ op \in { "list", "health" }
            /\ cl' = [cl EXCEPT ![p] = NewCall(op, EmptyStr, EmptyStr)]
         \/ /\ op = "delete"
            /\ \E d \in domains : cl' = [cl EXCEPT ![p] = NewCall(op, d, EmptyStr)]
         \/ /\ op = "create"
            /\ \E d \in domains, ip \in ips : cl' = [cl EXCEPT ![p] = NewCall(op, d, ip)]
    /\ UNCHANGED << mu, arg, out, obj, kind, store, sid, valid, now, rec, calls,
                    everManaged, hist, budget >>

\* the operation has returned to its caller
Call_Return(p) ==
    /\ rec[p].pc = "idle"
    /\ cl[p].pc = "ret"
    /\ cl' = [cl EXCEPT ![p] = IdleCall]
    /\ UNCHANGED << mu, arg, out, obj, kind, store, sid, valid, now, rec, calls,
                    everManaged, hist, budget >>

\* a second passes
Tick ==
    /\ now < MaxTime
    /\ now' = now + 1
    /\ UNCHANGED << mu, arg, out, obj, kind, store, sid, valid, rec, cl, calls,
                    everManaged, hist, budget >>

ClientOps == { "list", "create", "delete", "health" }
ClientDomains == { AppLocal }
ClientIPs == { IP1 }
ClientAuthStatuses == { StatusOK, StatusUnauthorized, NoResponse }
ClientListStatuses == { StatusOK, StatusUnauthorized, StatusInternalServerError, NoResponse }
ClientCreateStatuses == { StatusCreated, StatusUnauthorized, StatusBadRequest, NoResponse }
ClientDeleteStatuses == { StatusNoContent, StatusNotFound, StatusUnauthorized,
                          StatusInternalServerError, NoResponse }
ClientSIDs == { "sid1", "sid2" }
\* advertised validities: 1 second leaves 0 seconds, 3 seconds leave 2
ClientValidities == { 1, 3 }

InitClient ==
    /\ kind = [o \in Objs |-> "Ingress"]
    /\ obj = [o \in Objs |-> NoObject]
    /\ store \in InitStores
    /\ sid = ""
    /\ valid = 0
    /\ now = 0
    /\ rec = [p \in Procs |-> IdleRec]
    /\ cl = [p \in Procs |-> IdleCall]
    /\ calls = [p \in Procs |-> << >>]
    /\ everManaged = [o \in Objs |-> { }]
    /\ hist = [p \in Procs |-> InitHist]
    /\ budget = MaxEnv
    /\ arg = 0
    /\ out = "none"
    /\ mu = NoLock

NextClient ==
    \/ Call_Start("w1", ClientOps, ClientDomains, ClientIPs)
    \/ Call_Return("w1")
    \/ ensureAuthenticated("w1")
    \/ authenticate_Do("w1", ClientAuthStatuses, ClientSIDs, ClientValidities)
    \/ authenticate_Store("w1")
    \/ ListRecords_Do("w1", ClientListStatuses)
    \/ CreateRecord_Do("w1", ClientCreateStatuses)
    \/ DeleteRecord_Do("w1", ClientDeleteStatuses)
    \/ Tick
    \/ OtherPut(OtherEntries)
    \/ OtherRemove

SpecClient == InitClient /\ [][NextClient]_vars

(***************************************************************************)
(* SpecIsRetryable: APIError.IsRetryable applied to one status             *)
(***************************************************************************)
InitIsRetryable ==
    /\ kind = [o \in Objs |-> "Ingress"]
    /\ obj = [o \in Objs |-> NoObject]
    /\ store = << >>
    /\ sid = ""
    /\ valid = 0
    /\ now = 0
    /\ rec = [p \in Procs |-> IdleRec]
    /\ cl = [p \in Procs |-> IdleCall]
    /\ calls = [p \in Procs |-> << >>]
    /\ everManaged = [o \in Objs |-> { }]
    /\ hist = [p \in Procs |-> InitHist]
    /\ budget = 0
    /\ arg \in MinStatus..MaxStatus
    /\ out = "none"
    /\ mu = NoLock

\* (&APIError{StatusCode: arg}).IsRetryable()
IsRetryable_Apply ==
    /\ out = "none"
    /\ mu = NoLock
    /\ out' = IF IsRetryable(APIError(arg)) THEN "retryable" ELSE "terminal"
    /\ UNCHANGED << mu, arg, obj, kind, store, sid, valid, now, rec, cl, calls,
                    everManaged, hist, budget >>

NextIsRetryable == IsRetryable_Apply

SpecIsRetryable == InitIsRetryable /\ [][NextIsRetryable]_vars

(***************************************************************************)
(* SpecScenario: one object, a store and an API server that do not fail,   *)
(* and a user who edits the object between the reconciles:                 *)
(* hostnames [app.local]; then [app.local, api.local]; then no opt-in      *)
(***************************************************************************)
Script == << "addHost", "optOut" >>

\* the scripted edits made so far
Stage == Len(Script) - budget

\* the hostnames are spelled in the spec or in the hosts annotation
ScenarioObjects(k) ==
    { o \in { NewObject(Value(Str("true")), Absent, ov, sp) :
                ov \in { Absent, Value(AppLocal) }, sp \in { << >>, << AppLocal >> } } :
        extractHosts(k, o) = << AppLocal >> }

ScenarioStores == { << >>, << Entry(IP2, DbLocal) >> }
ScenarioFaults == { "none" }
ScenarioAuthStatuses == { StatusOK }
ScenarioListStatuses == { StatusOK }
ScenarioCreateStatuses == { StatusOK, StatusCreated, StatusNoContent }
ScenarioDeleteStatuses == { StatusOK, StatusNoContent }

InitScenario ==
    /\ \E k \in Kinds : \E o1 \in ScenarioObjects(k) :
         /\ kind = [o \in Objs |-> k]
         /\ obj = [o \in Objs |-> IF o = "o1" THEN o1 ELSE NoObject]
    /\ store \in ScenarioStores
    /\ sid = ""
    /\ valid = 0
    /\ now = 0
    /\ rec = [p \in Procs |-> IdleRec]
    /\ cl = [p \in Procs |-> IdleCall]
    /\ calls = [p \in Procs |-> << >>]
    /\ everManaged = [o \in Objs |-> { }]
    /\ hist = [p \in Procs |-> InitHist]
    /\ budget = Len(Script)
    /\ arg = 0
    /\ out = "none"
    /\ mu = NoLock

\* the first reconcile, and the one that the watch event of each edit causes
Scenario_Start(p, o) ==
    /\ rec[p].pc = "idle"
    /\ StartReconcile(p, o, FALSE)

\* the reconcile has returned; the user makes the next edit of the script
Scenario_Edit(p, o) ==
    /\ budget > 0
    /\ rec[p].pc = "done"
    /\ obj[o].exists
    /\ \E new \in
            IF Script[Stage + 1] = "addHost"
            THEN { n \in { [obj[o] EXCEPT !.specHosts = << AppLocal, ApiLocal >>],
                           [obj[o] EXCEPT !.hosts = Value(Join(<< AppLocal, ApiLocal >>, Comma))],
                           [obj[o] EXCEPT !.hosts = Value(Join(<< AppLocal, ApiLocal >>,
                                                               << Comma, Space >>))] } :
                     extractHosts(kind[o], n) = << AppLocal, ApiLocal >> }
            ELSE { [obj[o] EXCEPT !.register = v] : v \in { Absent, Value(Str("false")) } } :
         obj' = [obj EXCEPT ![o] = new]
    /\ rec' = [rec EXCEPT ![p] = [IdleRec EXCEPT !.key = o]]
    /\ budget' = budget - 1
    /\ UNCHANGED << mu, arg, out, kind, store, sid, valid, now, cl, calls, everManaged,
                    hist >>

NextScenario ==
    \/ Scenario_Start("w1", "o1")
    \/ Scenario_Edit("w1", "o1")
    \/ Reconcile_Get("w1", ScenarioFaults)
    \/ Reconcile_AddFinalizer("w1", ScenarioFaults)
    \/ Reconcile_Refetch("w1", ScenarioFaults)
    \/ Reconcile_List("w1")
    \/ Reconcile_SyncCreate("w1")
    \/ updateManagedHosts_Get("w1", ScenarioFaults)
    \/ updateManagedHosts_Update("w1", ScenarioFaults)
    \/ handleDeletion_Delete("w1")
    \/ handleDeletion_Update("w1", ScenarioFaults)
    \/ ensureAuthenticated("w1")
    \/ authenticate_Do("w1", ScenarioAuthStatuses, SIDs, Validities)
    \/ authenticate_Store("w1")
    \/ ListRecords_Do("w1", ScenarioListStatuses)
    \/ CreateRecord_Do("w1", ScenarioCreateStatuses)
    \/ DeleteRecord_Do("w1", ScenarioDeleteStatuses)

SpecScenario == InitScenario /\ [][NextScenario]_vars

(***************************************************************************)
(* SpecRoundTrip: one caller of the pihole client and nobody else at the   *)
(* store, which starts empty, with one record of app.local at another      *)
(* address, or with two records of app.local.  The caller enters the       *)
(* operations in any order; the call log holds its last CreateRecord /     *)
(* DeleteRecord                                                            *)
(***************************************************************************)
RoundTripDomains == { AppLocal, ApiLocal }

\* a caller enters ListRecords, CreateRecord or DeleteRecord
RoundTrip_Start(p, ops, domains, ips) ==
    /\ rec[p].pc = "idle"
    /\ cl[p].pc = "idle"
    /\ \E op \in ops :
         \/ /\ op = "list"
            /\ cl' = [cl EXCEPT ![p] = NewCall(op, EmptyStr, EmptyStr)]
            /\ calls' = calls
         \/ /\ op = "delete"
            /\ \E d \in domains :
                 LET step == Call(rec[p], << >>, "idle", op, d, EmptyStr) IN
                 /\ cl' = [cl EXCEPT ![p] = step.c]
                 /\ calls' = [calls EXCEPT ![p] = step.k]
         \/ /\ op = "create"
            /\ \E d \in domains, ip \in ips :
                 LET step == Call(rec[p], << >>, "idle", op, d, ip) IN
                 /\ cl' = [cl EXCEPT ![p] = step.c]
                 /\ calls' = [calls EXCEPT ![p] = step.k]
    /\ UNCHANGED << mu, arg, out, obj, kind, store, sid, valid, now, rec,
                    everManaged, hist, budget >>

\* the operation has returned to its caller
RoundTrip_Return(p) ==
    /\ rec[p].pc = "idle"
    /\ cl[p].pc = "ret"
    /\ cl' = [cl EXCEPT ![p] = IdleCall]
    /\ calls' = [calls EXCEPT ![p] =
                   IF cl[p].op = "list" THEN @ ELSE Returned(@, cl[p].err)]
    /\ UNCHANGED << mu, arg, out, obj, kind, store, sid, valid, now, rec,
                    everManaged, hist, budget >>

InitRoundTrip ==
    /\ kind = [o \in Objs |-> "Ingress"]
    /\ obj = [o \in Objs |-> NoObject]
    /\ store \in TwiceStores
    /\ sid = ""
    /\ valid = 0
    /\ now = 0
    /\ rec = [p \in Procs |-> IdleRec]
    /\ cl = [p \in Procs |-> IdleCall]
    /\ calls = [p \in Procs |-> << >>]
    /\ everManaged = [o \in Objs |-> { }]
    /\ hist = [p \in Procs |-> InitHist]
    /\ budget = 0
    /\ arg = 0
    /\ out = "none"
    /\ mu = NoLock

NextRoundTrip ==
    \/ RoundTrip_Start("w1", ClientOps, RoundTripDomains, ClientIPs)
    \/ RoundTrip_Return("w1")
    \/ ensureAuthenticated("w1")
    \/ authenticate_Do("w1", ClientAuthStatuses, ClientSIDs, ClientValidities)
    \/ authenticate_Store("w1")
    \/ ListRecords_Do("w1", ClientListStatuses)
    \/ CreateRecord_Do("w1", ClientCreateStatuses)
    \/ DeleteRecord_Do("w1", ClientDeleteStatuses)
    \/ Tick

SpecRoundTrip == InitRoundTrip /\ [][NextRoundTrip]_vars

(***************************************************************************)
(* SpecOptIn: one object whose opt-in annotation takes any value, at its   *)
(* creation and by later edits; the store and the API server may fail      *)
(***************************************************************************)
\* values of the register annotation: the map lookup of a missing key, and
\* the strings "true", "false", "yes", "" and "True"
OptInInputs ==
    { Absent, Value(Str("true")), Value(Str("false")), Value(Str("yes")),
      Value(EmptyStr), Value(Str("True")) }

InitOptIn ==
    /\ \E k \in Kinds, reg \in OptInInputs :
         /\ kind = [o \in Objs |-> k]
         /\ obj = [o \in Objs |->
                     IF o = "o1" THEN NewObject(reg, Absent, Absent, << AppLocal >>)
                     ELSE NoObject]
    /\ store \in InitStores
    /\ sid = ""
    /\ valid = 0
    /\ now = 0
    /\ rec = [p \in Procs |-> IdleRec]
    /\ cl = [p \in Procs |-> IdleCall]
    /\ calls = [p \in Procs |-> << >>]
    /\ everManaged = [o \in Objs |-> { }]
    /\ hist = [p \in Procs |-> InitHist]
    /\ budget = MaxEnv
    /\ arg = 0
    /\ out = "none"
    /\ mu = NoLock

NextOptIn ==
    \/ StartReconcile("w1", "o1", FALSE)
    \/ Reconcile_Get("w1", K8sFaults)
    \/ Reconcile_AddFinalizer("w1", K8sFaults)
    \/ Reconcile_Refetch("w1", K8sFaults)
    \/ Reconcile_List("w1")
    \/ Reconcile_SyncDelete("w1")
    \/ Reconcile_SyncCreate("w1")
    \/ updateManagedHosts_Get("w1", K8sFaults)
    \/ updateManagedHosts_Update("w1", K8sFaults)
    \/ handleDeletion_Delete("w1")
    \/ handleDeletion_Update("w1", K8sFaults)
    \/ ensureAuthenticated("w1")
    \/ authenticate_Do("w1", AuthStatuses, SIDs, Validities)
    \/ authenticate_Store("w1")
    \/ ListRecords_Do("w1", ListStatuses)
    \/ CreateRecord_Do("w1", CreateStatuses)
    \/ DeleteRecord_Do("w1", DeleteStatuses)
    \/ UserEdit("o1", OptInInputs, { }, { }, { })
    \/ UserDelete("o1")

SpecOptIn == InitOptIn /\ [][NextOptIn]_vars

(***************************************************************************)
(* SpecExtractHosts: extractHosts applied to one object of any kind        *)
(***************************************************************************)
AllKinds == { "Ingress", "HTTPRoute", "GRPCRoute", "TLSRoute", "TCPRoute" }

\* what a hosts annotation is spelled with: separators and hostnames
HostAlphabet == { Comma, Space, "app.local", "api.local" }

RECURSIVE StringsUpTo(_)
\* the strings of at most n characters
StringsUpTo(n) ==
    IF n = 0 THEN { EmptyStr }
    ELSE LET shorter == StringsUpTo(n - 1) IN
         shorter \cup { Append(t, c) : t \in shorter, c \in HostAlphabet }

\* spec.rules[].host / spec.hostnames; a rule may have no host
ExtractSpecs == { << >>, << AppLocal >>, << EmptyStr, DbLocal >>, << DbLocal, AppLocal >> }

ExtractInputs ==
    { [kind |-> k, object |-> NewObject(Absent, Absent, ov, sp)] :
        k \in AllKinds,
        ov \in { Absent } \cup { Value(t) : t \in StringsUpTo(MaxLen) },
        sp \in ExtractSpecs }

InitExtractHosts ==
    /\ kind = [o \in Objs |-> "Ingress"]
    /\ obj = [o \in Objs |-> NoObject]
    /\ store = << >>
    /\ sid = ""
    /\ valid = 0
    /\ now = 0
    /\ rec = [p \in Procs |-> IdleRec]
    /\ cl = [p \in Procs |-> IdleCall]
    /\ calls = [p \in Procs |-> << >>]
    /\ everManaged = [o \in Objs |-> { }]
    /\ hist = [p \in Procs |-> InitHist]
    /\ budget = 0
    /\ arg \in ExtractInputs
    /\ out = Absent
    /\ mu = NoLock

\* r.extractHosts(&ingress) / r.extractHosts(&route)
extractHosts_Apply ==
    /\ ~out.ok
    /\ out' = Value(extractHosts(arg.kind, arg.object))
    /\ UNCHANGED << mu, arg, obj, kind, store, sid, valid, now, rec, cl, calls,
                    everManaged, hist, budget >>

NextExtractHosts == extractHosts_Apply

SpecExtractHosts == InitExtractHosts /\ [][NextExtractHosts]_vars

(***************************************************************************)
(* SpecResolveTargetIP: resolveTargetIP applied to one object              *)
(***************************************************************************)
\* how a target-ip annotation starts: nothing, or the head of an IPv6
\* literal ("::", "::ffff:", "::fffe:", "0:0:0:0:0:ffff:", "fe80::")
TargetPrefixes ==
    { EmptyStr,
      << ":", ":" >>,
      << ":", ":", "f", "f", "f", "f", ":" >>,
      << ":", ":", "f", "f", "f", "e", ":" >>,
      << "0", ":", "0", ":", "0", ":", "0", ":", "0", ":", "f", "f", "f", "f", ":" >>,
      << "f", "e", "8", "0", ":", ":" >> }

\* how it ends: nothing, 1.1.1.1, 2.2.2.2, 256.1.1.1, 1.1.1, 01.1.1.1, 1,
\* bad, "1.1.1.1 ", 101:101, 1.1.1.1%e
TargetSuffixes ==
    { EmptyStr, IP1, IP2,
      << "2", "5", "6", ".", "1", ".", "1", ".", "1" >>,
      << "1", ".", "1", ".", "1" >>,
      << "0", "1", ".", "1", ".", "1", ".", "1" >>,
      << "1" >>,
      BadIP,
      IP1 \o << Space >>,
      << "1", "0", "1", ":", "1", "0", "1" >>,
      IP1 \o << "%", "e" >> }

ResolveInputs ==
    { NewObject(Absent, t, Absent, << >>) :
        t \in { Absent } \cup { Value(h \o e) : h \in TargetPrefixes, e \in TargetSuffixes } }

InitResolveTargetIP ==
    /\ kind = [o \in Objs |-> "Ingress"]
    /\ obj = [o \in Objs |-> NoObject]
    /\ store = << >>
    /\ sid = ""
    /\ valid = 0
    /\ now = 0
    /\ rec = [p \in Procs |-> IdleRec]
    /\ cl = [p \in Procs |-> IdleCall]
    /\ calls = [p \in Procs |-> << >>]
    /\ everManaged = [o \in Objs |-> { }]
    /\ hist = [p \in Procs |-> InitHist]
    /\ budget = 0
    /\ arg \in ResolveInputs
    /\ out = Absent
    /\ mu = NoLock

\* r.resolveTargetIP(&ingress) / resolveTargetIP(annotations, defaultTargetIP)
resolveTargetIP_Apply ==
    /\ ~out.ok
    /\ out' = Value(resolveTargetIP(arg))
    /\ UNCHANGED << mu, arg, obj, kind, store, sid, valid, now, rec, cl, calls,
                    everManaged, hist, budget >>

NextResolveTargetIP == resolveTargetIP_Apply

SpecResolveTargetIP == InitResolveTargetIP /\ [][NextResolveTargetIP]_vars

(***************************************************************************)
(* SpecSession: two callers share one HTTPClient.  The session cache is    *)
(* followed at the granularity of HTTPClient.mu: the write of authenticate *)
(* is Lock, c.sid, c.valid, Unlock, one step each                          *)
(***************************************************************************)
\* what POST /api/auth hands out: the first session lasts 2 seconds of the
\* clock, the second outlives it
Sessions == { [sid |-> "sid1", validity |-> 3], [sid |-> "sid2", validity |-> 10] }
SessionOps == { "list", "create" }
SessionAuthStatuses == { StatusOK, StatusUnauthorized }
SessionListStatuses == { StatusOK, StatusUnauthorized }
SessionCreateStatuses == { StatusCreated, StatusUnauthorized }

\* ListRecords / CreateRecord from setAuthHeaders on: the header is read
\* under RLock
Request_RLock(p) ==
    /\ CanRLock
    /\ \/ ListRecords_Do(p, SessionListStatuses)
       \/ CreateRecord_Do(p, SessionCreateStatuses)

InitSession ==
    /\ kind = [o \in Objs |-> "Ingress"]
    /\ obj = [o \in Objs |-> NoObject]
    /\ store = << >>
    /\ sid = ""
    /\ valid = 0
    /\ now = 0
    /\ rec = [p \in Procs |-> IdleRec]
    /\ cl = [p \in Procs |-> IdleCall]
    /\ calls = [p \in Procs |-> << >>]
    /\ everManaged = [o \in Objs |-> { }]
    /\ hist = [p \in Procs |-> InitHist]
    /\ budget = 0
    /\ arg = 0
    /\ out = "none"
    /\ mu = NoLock

NextSession ==
    \/ \E p \in Procs : Call_Start(p, SessionOps, ClientDomains, ClientIPs)
    \/ \E p \in Procs : Call_Return(p)
    \/ \E p \in Procs : ensureAuthenticated_RLock(p)
    \/ \E p \in Procs, s \in Sessions :
         authenticate_Do(p, SessionAuthStatuses, { s.sid }, { s.validity })
    \/ \E p \in Procs : authenticate_Lock(p)
    \/ \E p \in Procs : authenticate_WriteSid(p)
    \/ \E p \in Procs : authenticate_WriteValid(p)
    \/ \E p \in Procs : authenticate_Unlock(p)
    \/ \E p \in Procs : Request_RLock(p)
    \/ Tick

SpecSession == InitSession /\ [][NextSession]_vars

(***************************************************************************)
(* SpecRetry: one opted-in object whose reconciles fail and are scheduled  *)
(* again.  While budget > 0 the store and the API server may fail and the  *)
(* user may edit the object; from FaultsEnd on every call is answered with *)
(* success and nobody edits.  A reconcile in progress goes on, and a       *)
(* reconcile that returned an error or a RequeueAfter is run again         *)
(***************************************************************************)
\* the answers of the store or the API server: any of them at first, the
\* good ones from some point on
WhileFaulty(answers, good) == IF budget > 0 THEN answers ELSE good

\* from here on every call succeeds and the object is left alone
FaultsEnd ==
    /\ budget > 0
    /\ budget' = 0
    /\ UNCHANGED << mu, arg, out, obj, kind, store, sid, valid, now, rec, cl, calls,
                    everManaged, hist >>

\* controller-runtime runs the key again: the last reconcile returned an
\* error or a RequeueAfter
Retry(p, o) ==
    /\ Requeued(rec[p])
    /\ StartReconcile(p, o, FALSE)

\* the next call of the reconcile in progress is answered
RetryStep(p) ==
    \/ Reconcile_Get(p, WhileFaulty(K8sFaults, { "none" }))
    \/ Reconcile_AddFinalizer(p, WhileFaulty(K8sFaults, { "none" }))
    \/ Reconcile_Refetch(p, WhileFaulty(K8sFaults, { "none" }))
    \/ Reconcile_List(p)
    \/ Reconcile_SyncDelete(p)
    \/ Reconcile_SyncCreate(p)
    \/ Reconcile_Prune(p)
    \/ updateManagedHosts_Get(p, WhileFaulty(K8sFaults, { "none" }))
    \/ updateManagedHosts_Update(p, WhileFaulty(K8sFaults, { "none" }))
    \/ handleDeletion_Delete(p)
    \/ handleDeletion_Update(p, WhileFaulty(K8sFaults, { "none" }))
    \/ ensureAuthenticated(p)
    \/ authenticate_Do(p, WhileFaulty(AuthStatuses, { StatusOK }), SIDs, Validities)
    \/ authenticate_Store(p)
    \/ ListRecords_Do(p, WhileFaulty(ListStatuses, { StatusOK }))
    \/ CreateRecord_Do(p, WhileFaulty(CreateStatuses, { StatusCreated }))
    \/ DeleteRecord_Do(p, WhileFaulty(DeleteStatuses, { StatusNoContent, StatusNotFound }))

InitRetry ==
    /\ \E k \in Kinds, spec \in SpecInputs :
         /\ kind = [o \in Objs |-> k]
         /\ obj = [o \in Objs |->
                     IF o = "o1" THEN NewObject(Value(Str("true")), Absent, Absent, spec)
                     ELSE NoObject]
    /\ store \in InitStores
    /\ sid = ""
    /\ valid = 0
    /\ now = 0
    /\ rec = [p \in Procs |-> IdleRec]
    /\ cl = [p \in Procs |-> IdleCall]
    /\ calls = [p \in Procs |-> << >>]
    /\ everManaged = [o \in Objs |-> { }]
    /\ hist = [p \in Procs |-> InitHist]
    /\ budget = MaxEnv
    /\ arg = 0
    /\ out = "none"
    /\ mu = NoLock

NextRetry ==
    \/ StartReconcile("w1", "o1", FALSE)
    \/ RetryStep("w1")
    \/ UserEdit("o1", RegisterInputs, { }, OverrideInputs, SpecInputs)
    \/ FaultsEnd

SpecRetry ==
    /\ InitRetry /\ [][NextRetry]_vars
    /\ WF_vars(RetryStep("w1"))
    /\ WF_vars(Retry("w1", "o1"))

(***************************************************************************)
(* SpecListRecords: ListRecords against hosts arrays of well-formed,       *)
(* malformed and foreign entries; the store answers every request          *)
(***************************************************************************)
\* entries of two fields, of three, of one and of none, with single, double,
\* leading and trailing whitespace
ListEntries ==
    { Entry(IP1, AppLocal),
      << Space >> \o IP2 \o << Tab, Space >> \o ApiLocal \o << Space >>,
      IP1 \o << Space >> \o DbLocal \o << Space, "#", Space, "db" >>,
      AppLocal,
      << Space, Tab >>,
      EmptyStr }

RECURSIVE ArraysUpTo(_)
\* the hosts arrays of at most n entries
ArraysUpTo(n) ==
    IF n = 0 THEN { << >> }
    ELSE LET shorter == ArraysUpTo(n - 1) IN
         shorter \cup { Append(a, e) : a \in shorter, e \in ListEntries }

InitListRecords ==
    /\ kind = [o \in Objs |-> "Ingress"]
    /\ obj = [o \in Objs |-> NoObject]
    /\ store \in ArraysUpTo(MaxLen)
    /\ sid = ""
    /\ valid = 0
    /\ now = 0
    /\ rec = [p \in Procs |-> IdleRec]
    /\ cl = [p \in Procs |-> IdleCall]
    /\ calls = [p \in Procs |-> << >>]
    /\ everManaged = [o \in Objs |-> { }]
    /\ hist = [p \in Procs |-> InitHist]
    /\ budget = 0
    /\ arg = 0
    /\ out = "none"
    /\ mu = NoLock

NextListRecords ==
    \/ Call_Start("w1", { "list" }, { }, { })
    \/ Call_Return("w1")
    \/ ensureAuthenticated("w1")
    \/ authenticate_Do("w1", { StatusOK }, SIDs, Validities)
    \/ authenticate_Store("w1")
    \/ ListRecords_Do("w1", { StatusOK })

SpecListRecords == InitListRecords /\ [][NextListRecords]_vars

(***************************************************************************)
(* SpecStaleDelete: a caller deletes records while another writer removes  *)
(* and puts entries at any time, also between the list and the DELETE of   *)
(* one DeleteRecord; the store may fail or answer 401                      *)
(***************************************************************************)
InitStaleDelete ==
    /\ kind = [o \in Objs |-> "Ingress"]
    /\ obj = [o \in Objs |-> NoObject]
    /\ store \in TwiceStores
    /\ sid = ""
    /\ valid = 0
    /\ now = 0
    /\ rec = [p \in Procs |-> IdleRec]
    /\ cl = [p \in Procs |-> IdleCall]
    /\ calls = [p \in Procs |-> << >>]
    /\ everManaged = [o \in Objs |-> { }]
    /\ hist = [p \in Procs |-> InitHist]
    /\ budget = MaxEnv
    /\ arg = 0
    /\ out = "none"
    /\ mu = NoLock

NextStaleDelete ==
    \/ Call_Start("w1", { "delete" }, RoundTripDomains, { })
    \/ Call_Return("w1")
    \/ ensureAuthenticated("w1")
    \/ authenticate_Do("w1", ClientAuthStatuses, SIDs, ClientValidities)
    \/ authenticate_Store("w1")
    \/ ListRecords_Do("w1", ClientListStatuses)
    \/ DeleteRecord_Do("w1", ClientDeleteStatuses)
    \/ OtherPut(OtherEntries)
    \/ OtherRemove

SpecStaleDelete == InitStaleDelete /\ [][NextStaleDelete]_vars

(***************************************************************************)
(* Properties                                                              *)
(***************************************************************************)
\* the reconcile of worker p has computed the same desired state (H, A) as
\* its previous reconcile
SecondRun(p) ==
    /\ hist[p].targetIP # EmptyStr
    /\ rec[p].desiredHosts = hist[p].desiredHosts
    /\ rec[p].targetIP = hist[p].targetIP

\* C1 as stated: when an opted-in object is reconciled twice in a row with
\* unchanged hostnames H and address A and no other actor changes the store
\* in between, the second reconcile issues no create and no delete call.
C1_AsStated ==
    \A p \in Procs : SecondRun(p) => calls[p] = << >>

\* C1: when an opted-in object is reconciled twice in a row with unchanged
\* hostnames H and address A, the first reconcile having run to its last
\* line (every store call and the managed-hosts write succeeded) and no
\* other actor changing the store in between, the second reconcile issues no
\* create and no delete call.
C1_Idempotent ==
    \A p \in Procs : (SecondRun(p) /\ hist[p].ok) => calls[p] = << >>

\* a second reconcile of unchanged (H, A) has come to its end
C1_Witness ==
    /\ SecondRun("w1") /\ hist["w1"].ok
    /\ rec["w1"].pc = "done" /\ rec["w1"].exit = "ok"
    /\ Len(rec["w1"].desiredHosts) = 2

\* C2: every delete the engine issues targets a domain that is, or once was,
\* in the persisted managed-hosts set of the object; a record another writer
\* put into the store is never deleted by the engine.
C2_DeletesOnlyManaged ==
    \A p \in Procs : \A i \in 1..Len(calls[p]) :
        calls[p][i].op = "delete" => calls[p][i].domain \in everManaged[rec[p].key]

\* the ways a reconcile of an opted-in, non-deleting object ends
SyncExits == { "noHosts", "invalidIP", "listError", "apiError", "managedHostsError", "ok" }

\* the managed-hosts annotation of the object of p's reconcile, as a set
ManagedSet(p) == SeqToSet(getManagedHosts(obj[rec[p].key]))

\* C3 as stated: after every reconcile of an opted-in, non-deleting object
\* that ends without an error and without a scheduled retry, the managed-hosts
\* annotation equals, as a set, the desired hostnames of that reconcile.
C3_AsStated ==
    \A p \in Procs :
        (rec[p].pc = "done" /\ rec[p].exit \in SyncExits /\ rec[p].result = NoResult)
            => ManagedSet(p) = SeqToSet(rec[p].desiredHosts)

\* C3: after every reconcile of an opted-in, non-deleting object that ran to
\* its last line (hostnames non-empty, address valid, every store call and
\* the annotation write successful), the managed-hosts annotation equals, as
\* a set, the desired hostnames of that reconcile.
C3_ManagedEqualsDesired ==
    \A p \in Procs :
        (rec[p].pc = "done" /\ rec[p].exit = "ok")
            => /\ obj[rec[p].key].exists
               /\ ManagedSet(p) = SeqToSet(rec[p].desiredHosts)
               /\ rec[p].desiredHosts # << >>

\* a reconcile that created two records has written the annotation
C3_Witness ==
    /\ rec["w1"].pc = "done" /\ rec["w1"].exit = "ok"
    /\ Len(calls["w1"]) = 2
    /\ ManagedSet("w1") = { AppLocal, ApiLocal }

\* the cleanup is through its loop: one successful DeleteRecord per host of
\* the managed-hosts annotation, in order, and the finalizer still there
C4_AtRemoval(p) ==
    rec[p].pc = "removeFinalizer" =>
        /\ obj[rec[p].key].exists /\ obj[rec[p].key].finalizer
        /\ rec[p].managedHosts = getManagedHosts(obj[rec[p].key])
        /\ Len(calls[p]) = Len(rec[p].managedHosts)
        /\ \A i \in 1..Len(calls[p]) :
              calls[p][i] = [op |-> "delete", domain |-> rec[p].managedHosts[i],
                             ip |-> EmptyStr, ret |-> "ok"]

\* a cleanup that ended on a failed delete left the finalizer on the object
C4_Failed(p) ==
    (rec[p].pc = "done" /\ rec[p].exit = "cleanupError") =>
        /\ obj[rec[p].key].exists /\ obj[rec[p].key].finalizer
        /\ calls[p][Len(calls[p])].ret = "error"
        /\ \A i \in 1..(Len(calls[p]) - 1) : calls[p][i].ret = "ok"

\* a step that takes the finalizer off an object is the Update of a cleanup
\* that is through its loop
C4_RemovalStep ==
    \A o \in Objs :
        (obj[o].finalizer /\ ~obj'[o].finalizer) =>
            \E p \in Procs : /\ rec[p].key = o
                             /\ rec[p].pc = "removeFinalizer"
                             /\ rec'[p].exit = "cleanedUp"

\* C4: a reconcile that sees the deletion marker, or no opt-in marker, on an
\* object with the finalizer issues a delete for every hostname of the
\* managed-hosts annotation and removes the finalizer only after all of them
\* returned success; if a delete fails the finalizer stays on the object.
C4_Cleanup ==
    /\ [](\A p \in Procs : C4_AtRemoval(p) /\ C4_Failed(p))
    /\ [][C4_RemovalStep]_vars

\* a cleanup has deleted two managed hosts and removed the finalizer
C4_Witness ==
    /\ rec["w1"].pc = "done" /\ rec["w1"].exit = "cleanedUp"
    /\ Len(calls["w1"]) = 2
    /\ ~obj["o1"].finalizer

C6_ReauthOnce ==
    \A p \in Procs : cl[p].reauths <= 1

\* the pihole client has returned the rejected credential to the reconcile
\* that called it, and this step ends the reconcile
RejectedCredential(p) ==
    /\ Running(rec[p])
    /\ cl[p].pc = "ret"
    /\ cl[p].err = Errorf(APIError(StatusUnauthorized))
    /\ rec'[p].pc = "done"

\* C7 as stated: a rejected credential (401 from the authentication
\* endpoint) is terminal: the reconcile that hits it schedules no retry.
C7_AsStated ==
    [][\A p \in Procs : RejectedCredential(p) => ~Requeued(rec'[p])]_vars

\* C7: a rejected credential (401 from the authentication endpoint) is
\* classified retryable, and the reconcile that hits it returns the error
\* with a positive requeue delay: a retry is scheduled, as for an
\* unreachable store.
C7_RejectedCredentialRetried ==
    [][\A p \in Procs :
         RejectedCredential(p) =>
             /\ IsRetryable(APIError(StatusUnauthorized))
             /\ Requeued(rec'[p])
             /\ rec'[p].result.err = cl[p].err
             /\ rec'[p].result.requeueAfter > 0]_vars

\* a sync stopped at a CreateRecord whose authentication was rejected, and
\* is queued again
C7_Witness ==
    /\ rec["w1"].pc = "done" /\ rec["w1"].exit = "apiError"
    /\ rec["w1"].result.err = Errorf(APIError(StatusUnauthorized))
    /\ Requeued(rec["w1"])
    /\ calls["w1"][Len(calls["w1"])].op = "create"

\* CreateRecord of the sync loop has returned an error, and this step ends
\* the reconcile
CreateFailed(p) ==
    /\ rec[p].pc = "syncCreate"
    /\ cl[p].pc = "ret"
    /\ cl[p].err # Nil
    /\ rec'[p].pc = "done"

\* the error of a 5xx answer, or of a request that got no answer
ServerOrTransport(e) ==
    \/ e.type = "APIError" /\ e.status >= StatusInternalServerError
    \/ e = Errorf(NetError)

\* C8 as stated: in the sync step a 4xx answer to a create never leads to a
\* retry (no requeue, no error), a 5xx answer or a transport timeout always
\* leads to one retry with a positive delay.
C8_AsStated ==
    [][\A p \in Procs :
         CreateFailed(p) =>
             /\ (cl[p].err.type = "APIError"
                   /\ cl[p].err.status >= StatusBadRequest
                   /\ cl[p].err.status < StatusInternalServerError)
                  => rec'[p].result = NoResult
             /\ ServerOrTransport(cl[p].err)
                  => rec'[p].result = Result(RequeueAPIError, cl[p].err)]_vars

\* C8: in the sync step a 400 answer to a create never leads to a retry (no
\* requeue, no error); every other failed answer (other 4xx statuses, 5xx)
\* and a transport timeout leads to one retry: the error is returned with a
\* positive requeue delay.
C8_CreateRetry ==
    [][\A p \in Procs :
         CreateFailed(p) =>
             /\ cl[p].err = APIError(StatusBadRequest) => rec'[p].result = NoResult
             /\ cl[p].err # APIError(StatusBadRequest)
                  => /\ rec'[p].result = Result(RequeueAPIError, cl[p].err)
                     /\ Requeued(rec'[p])
                     /\ rec'[p].result.requeueAfter > 0]_vars

\* a sync stopped at a create that the store answered 400, with no retry
C8_Witness ==
    /\ rec["w1"].pc = "done" /\ rec["w1"].exit = "apiError"
    /\ rec["w1"].result = NoResult
    /\ calls["w1"][Len(calls["w1"])] =
         [op |-> "create", domain |-> AppLocal, ip |-> DefaultTargetIP, ret |-> "error"]

\* a status of the client-error class that is neither an authentication
\* failure nor not-found
ClientRejection(st) ==
    /\ st >= StatusBadRequest /\ st < StatusInternalServerError
    /\ st \notin { StatusUnauthorized, StatusForbidden, StatusNotFound }

NonSuccess(st) == st \notin { StatusOK, StatusCreated, StatusNoContent }

\* C9 as stated: an APIError whose status is a client-supplied request
\* rejection (client-error class) is classified non-retryable, one with any
\* other non-success status is classified retryable.
C9_AsStated ==
    out # "none" =>
        /\ ClientRejection(arg) => out = "terminal"
        /\ (NonSuccess(arg) /\ ~ClientRejection(arg)) => out = "retryable"

\* C9: an APIError is classified non-retryable exactly when its status is
\* 400; with every other status (401, 403, 404, the rest of the 4xx class,
\* 5xx) it is classified retryable.
C9_Only400Terminal ==
    out # "none" => (out = "terminal" <=> arg = StatusBadRequest)

\* IsRetryable has classified status 400
C9_Witness ==
    arg = StatusBadRequest /\ out = "terminal"

\* the store holds no record for the domain
NoRecordFor(domain) ==
    \A i \in 1..Len(store) : Fields(store[i])[2] # domain

\* a finished call of the call log
Done(op, domain, ip) == [op |-> op, domain |-> domain, ip |-> ip, ret |-> "ok"]

\* C10: with hostnames [app.local] and the default address the first
\* reconcile creates exactly one record; after the hostnames changed to
\* [app.local, api.local] the second reconcile creates api.local only, with
\* no delete or create for app.local; after the opt-in marker is removed the
\* third reconcile deletes both records and removes the finalizer.
C10_Scenario ==
    LET r == rec["w1"]
        k == calls["w1"]
    IN /\ (Stage = 0 /\ r.pc = "done")
            => /\ r.exit = "ok" /\ r.result = NoResult
               /\ k = << Done("create", AppLocal, DefaultTargetIP) >>
               /\ Contains(store, Entry(DefaultTargetIP, AppLocal))
               /\ NoRecordFor(ApiLocal)
       /\ (Stage = 1 /\ r.pc # "idle")
            => \A i \in 1..Len(k) : k[i].domain # AppLocal
       /\ (Stage = 1 /\ r.pc = "done")
            => /\ r.exit = "ok" /\ r.result = NoResult
               /\ k = << Done("create", ApiLocal, DefaultTargetIP) >>
               /\ Contains(store, Entry(DefaultTargetIP, AppLocal))
               /\ Contains(store, Entry(DefaultTargetIP, ApiLocal))
       /\ (Stage = 2 /\ r.pc = "done")
            => /\ r.exit = "cleanedUp" /\ r.result = NoResult
               /\ k = << Done("delete", AppLocal, EmptyStr),
                         Done("delete", ApiLocal, EmptyStr) >>
               /\ NoRecordFor(AppLocal) /\ NoRecordFor(ApiLocal)
               /\ obj["o1"].exists /\ ~obj["o1"].finalizer

\* the third reconcile of the scenario has returned
C10_Witness ==
    /\ Stage = 2
    /\ rec["w1"].pc = "done" /\ rec["w1"].exit = "cleanedUp"
    /\ Len(calls["w1"]) = 2
    /\ store \in ScenarioStores

RECURSIVE RecordsOf(_, _)
\* the records of a list result that have the domain
RecordsOf(records, domain) ==
    IF records = << >> THEN << >>
    ELSE (IF Head(records).Domain = domain THEN << Head(records) >> ELSE << >>)
         \o RecordsOf(Tail(records), domain)

\* ListRecords has returned a list to worker p, whose last CreateRecord /
\* DeleteRecord before it was a successful op
ListedAfter(p, op) ==
    /\ cl[p].pc = "ret" /\ cl[p].op = "list" /\ cl[p].err = Nil
    /\ calls[p] # << >>
    /\ calls[p][1].op = op /\ calls[p][1].ret = "ok"

\* C11: with no concurrent actor, for every hostname h, address A and prior
\* store content: a ListRecords that follows a successful CreateRecord(h, A)
\* returns exactly one record with domain h, and it has address A; a
\* ListRecords that follows a successful DeleteRecord(h) returns no record
\* with domain h.
C11_RoundTrip ==
    \A p \in Procs :
        /\ ListedAfter(p, "create")
             => RecordsOf(cl[p].records, calls[p][1].domain)
                  = << [IP |-> calls[p][1].ip, Domain |-> calls[p][1].domain] >>
        /\ ListedAfter(p, "delete")
             => RecordsOf(cl[p].records, calls[p][1].domain) = << >>

\* worker p is in DeleteRecord(d) and the store holds no entry whose domain
\* is d
DeleteOfAbsent(p) ==
    /\ cl[p].op = "delete" /\ cl[p].pc # "idle"
    /\ NoRecordFor(cl[p].domain)

\* C12: DeleteRecord(d) on a store that holds no entry whose domain is d
\* sends no DELETE request and leaves the store unchanged: no step of it
\* writes the store or takes it to its DELETE request, and it returns nil
\* right after its list, or else the wrapped error of its authentication or
\* of its list (never the error of a DELETE answer).
C12_NoMatchNoDelete ==
    [][\A p \in Procs :
         (DeleteOfAbsent(p) /\ cl'[p] # cl[p] /\ cl'[p].pc # "idle") =>
             /\ store' = store
             /\ ~(cl'[p].pc = "do" /\ ~cl'[p].inner)
             /\ cl'[p].entry = EmptyStr
             /\ cl'[p].pc = "ret"
                  => \/ cl'[p].err = Nil /\ cl[p].pc = "do" /\ cl[p].inner
                     \/ cl'[p].err.type = "wrapError"]_vars

\* DeleteRecord(api.local) has returned nil from a store that holds a
\* record of app.local only
C12_Witness ==
    /\ cl["w1"].pc = "ret" /\ cl["w1"].op = "delete" /\ cl["w1"].err = Nil
    /\ cl["w1"].domain = ApiLocal
    /\ store = << Entry(IP2, AppLocal) >>

\* worker p is at the first Get of a reconcile, and the object is there, is
\* not being deleted and carries the register annotation v
GetsLive(p, v) ==
    /\ rec[p].pc = "get" /\ rec'[p].pc # "get"
    /\ obj[rec[p].key].exists /\ ~obj[rec[p].key].deleting
    /\ obj[rec[p].key].register = v
    /\ rec'[p].exit # "getError"

\* the reconcile goes on to the sync: to the finalizer, to the list, or to
\* the end for want of a hostname or of a valid address
EntersSync(r) ==
    \/ r.pc \in { "addFinalizer", "list" }
    \/ r.pc = "done" /\ r.exit \in { "noHosts", "invalidIP" }

\* C13: sync is enabled only when the register annotation is the exact
\* string "true": a reconcile that reads a non-deleting object goes on to
\* the sync exactly when the annotation has that value; with any other
\* value ("false", "yes", "True", the empty string) or without the
\* annotation, the reconcile of an object without the finalizer ends at
\* once, without an error, a retry, a DNS store call or a write to the
\* object.
C13_ExactTrue ==
    [][\A p \in Procs : \A v \in OptInInputs :
         GetsLive(p, v) =>
             /\ EntersSync(rec'[p]) <=> v = Value(Str("true"))
             /\ (v # Value(Str("true")) /\ ~obj[rec[p].key].finalizer)
                  => /\ rec'[p].pc = "done" /\ rec'[p].exit = "notRegistered"
                     /\ rec'[p].result = NoResult
                     /\ calls'[p] = << >> /\ cl'[p] = IdleCall
                     /\ obj' = obj /\ store' = store]_vars

\* a reconcile of an object annotated register: "yes", without finalizer,
\* has ended
C13_Witness ==
    /\ rec["w1"].pc = "done" /\ rec["w1"].exit = "notRegistered"
    /\ obj["o1"].exists /\ ~obj["o1"].deleting /\ ~obj["o1"].finalizer
    /\ obj["o1"].register = Value(Str("yes"))
    /\ calls["w1"] = << >>

\* the address override is present, non-empty and no IPv4 literal
BadOverride(o) ==
    o.targetIP.ok /\ o.targetIP.v # EmptyStr /\ ~isValidIPv4(o.targetIP.v)

\* the hostnames the reconcile of worker p takes as desired when its Get
\* returns now: the Ingress reconciler extracts them from the object it
\* holds last, a route reconciler from the object of its first Get
DesiredHostsAt(p) ==
    LET o == rec[p].key IN
    IF kind[o] = "Ingress" \/ rec[p].pc = "get"
    THEN extractHosts(kind[o], obj[o])
    ELSE rec[p].extractedHosts

\* this step takes the reconcile of worker p to its desired state: a Get
\* returns an opted-in object that is not being deleted and has the
\* finalizer (the first Get, or the one that follows the finalizer's Update)
ReachesDesiredState(p) ==
    LET o == rec[p].key IN
    /\ rec[p].pc \in { "get", "refetch" } /\ rec'[p].pc # rec[p].pc
    /\ rec'[p].exit \notin { "getError", "refetchError" }
    /\ obj[o].exists /\ ~obj[o].deleting /\ obj[o].finalizer
    /\ hasRegistrationAnnotation(obj[o])

Blank(e) == \A i \in 1..Len(e) : e[i] = Space

\* e from its first to its last character that is no space
Trimmed(e) ==
    LET at == { i \in 1..Len(e) : e[i] # Space } IN
    IF at = { } THEN EmptyStr
    ELSE SubSeq(e, CHOOSE i \in at : \A j \in at : i <= j,
                   CHOOSE i \in at : \A j \in at : i >= j)

\* the comma-separated entries of an override: each trimmed, the empty ones
\* dropped, in their order
OverrideEntries(v) ==
    LET kept == SelectSeq(Split(v, Comma), LAMBDA e : ~Blank(e)) IN
    [i \in 1..Len(kept) |-> Trimmed(kept[i])]

\* the non-empty hostnames the spec of an object of kind k declares
SpecHostnames(k, sp) ==
    IF k = "TCPRoute" THEN << >> ELSE SelectSeq(sp, LAMBDA h : h # EmptyStr)

\* C15: with a non-empty hosts override the desired hostnames are exactly
\* the comma-separated entries of the override, each trimmed, empty entries
\* dropped, order kept, and no spec-declared hostname is added; without an
\* override they are the non-empty spec-declared hostnames in declaration
\* order, and the empty list for the kind without spec hostnames (TCPRoute).
C15_DesiredHosts ==
    out.ok =>
        LET ov == arg.object.hosts IN
        /\ (ov.ok /\ ov.v # EmptyStr) => out.v = OverrideEntries(ov.v)
        /\ ~ov.ok => out.v = SpecHostnames(arg.kind, arg.object.specHosts)

\* the extractor has answered for the override "api.local,app.local" on an
\* object whose spec declares db.local and app.local
C15_Witness ==
    /\ out = Value(<< ApiLocal, AppLocal >>)
    /\ arg.object.hosts = Value(<< "api.local", Comma, "app.local" >>)
    /\ arg.object.specHosts = << DbLocal, AppLocal >>

\* C16: when the hosts override is present but empty after trimming (the
\* empty string, only whitespace, or only commas and whitespace), the
\* extractor falls through to the spec-declared hostnames instead of
\* returning an empty hostname list.
C16_EmptyOverrideFallsThrough ==
    out.ok =>
        LET ov == arg.object.hosts IN
        (ov.ok /\ \A i \in 1..Len(ov.v) : ov.v[i] \in { Space, Comma })
            => out.v = SpecHostnames(arg.kind, arg.object.specHosts)

RECURSIVE Decimal(_)
\* the decimal spelling of a natural number
Decimal(n) ==
    LET last == CHOOSE c \in Digits : DigitVal(c) = n % 10 IN
    IF n < 10 THEN << last >> ELSE Append(Decimal(n \div 10), last)

\* a dotted-decimal IPv4 literal: four numbers from 0 to 255, with dots
DottedDecimal(v) ==
    LET fs == Split(v, ".") IN
    /\ Len(fs) = 4
    /\ \A i \in 1..4 : \E n \in 0..255 : fs[i] = Decimal(n)

\* C17: resolveTargetIP returns the override unchanged when it is a valid
\* dotted-decimal IPv4 literal; it signals failure (the empty result, no
\* fallback to the default) when the override is present, non-empty and
\* fails dotted-decimal IPv4 parsing, every valid IPv6 literal included; it
\* returns the configured default when the override is absent or the empty
\* string.
C17_ResolveTargetIP ==
    out.ok =>
        LET t == arg.targetIP IN
        /\ (t.ok /\ DottedDecimal(t.v)) => out.v = t.v
        /\ (t.ok /\ t.v # EmptyStr /\ ~DottedDecimal(t.v)) => out.v = EmptyStr
        /\ (~t.ok \/ t.v = EmptyStr) => out.v = DefaultTargetIP

\* C18: persisting an empty hostname set removes the managed-hosts key
\* instead of storing an empty string, so that a reconcile which finds the
\* hostname set of an opted-in object empty leaves the object without a
\* managed-hosts annotation.
C18_EmptySetRemovesKey ==
    /\ ManagedValue(<< >>) = Absent
    /\ \A p \in Procs :
         (rec[p].pc = "done" /\ rec[p].exit = "noHosts" /\ obj[rec[p].key].exists)
             => ~obj[rec[p].key].managed.ok

\* an object without what the engine owns: the managed-hosts annotation and
\* the finalizer token
Rest(x) == [x EXCEPT !.managed = Absent, !.finalizer = FALSE, !.current = TRUE]

\* C19: every write the engine makes to a routing object changes only the
\* managed-hosts annotation or the presence of the finalizer token: the
\* other annotations (register, target-ip, hosts, those of other owners),
\* the other finalizers and the spec are, after the write, what they were
\* on the API server before it and what the engine had fetched; the one
\* write that makes an object go away is the removal of the finalizer from
\* an object that is being deleted.
C19_WritesOnlyOwn ==
    [][\A p \in Procs :
         (rec[p].pc \in { "addFinalizer", "umhUpdate", "removeFinalizer" }
            /\ obj' # obj /\ budget' = budget) =>
             LET o == rec[p].key
                 copy == IF rec[p].pc = "umhUpdate" THEN rec[p].fresh ELSE rec[p].ingress
             IN /\ \A q \in Objs \ { o } : obj'[q] = obj[q]
                /\ Rest(copy) = Rest(obj[o])
                /\ obj'[o].exists => Rest(obj'[o]) = Rest(obj[o])
                /\ ~obj'[o].exists
                     => (rec[p].pc = "removeFinalizer" /\ obj[o].deleting /\ obj[o].finalizer)
                /\ rec[p].pc = "umhUpdate" => obj'[o].finalizer = obj[o].finalizer
                /\ (rec[p].pc # "umhUpdate" /\ obj'[o].exists)
                     => obj'[o].managed = obj[o].managed]_vars

\* the engine has written the managed-hosts annotation of an object after a
\* user gave it a hosts override and somebody else an annotation of their
\* own
C19_Witness ==
    /\ rec["w1"].pc = "done" /\ rec["w1"].exit = "ok"
    /\ obj["o1"].foreign = "some"
    /\ obj["o1"].hosts.ok
    /\ obj["o1"].managed = Value(ApiLocal)

\* the cached pair is the one an authentication that got session s wrote at
\* some second of the clock so far
Expiry(s, t) == t + (s.validity * 80) \div 100

WrittenFrom(s) ==
    /\ sid = s.sid
    /\ \E t \in 0..now : valid = Expiry(s, t)

\* the cache as NewClient left it, or as one authentication wrote it
OneSession == (sid = "" /\ valid = 0) \/ \E s \in Sessions : WrittenFrom(s)

\* p reads the cache: the check of ensureAuthenticated or the header of a request
ReadsSession(p) == cl[p].pc \in { "ensure", "do" } /\ cl'[p] # cl[p]

\* p goes on from the write of its authenticate
LeavesStore(p) ==
    cl[p].pc \in { "authStore", "reauthStore" } /\ cl'[p].pc # cl[p].pc

\* C20: whenever nobody holds the write lock, and whenever a caller reads the
\* cache, the cached token and expiry are the pair one authentication wrote;
\* a caller that authenticated goes on to its request only from the Unlock that
\* ends its own write of both fields, which leaves its session in the cache;
\* so of two racing refreshes the cache keeps the session of one of the two.
C20_SessionPair ==
    /\ [](mu.writer = "none" => OneSession)
    /\ [][\A p \in Procs :
            /\ ReadsSession(p) => OneSession
            /\ LeavesStore(p) =>
                 /\ mu.writer = p /\ mu.wrote = 2 /\ mu'.writer = "none"
                 /\ sid' = cl[p].pending.sid
                 /\ \E t \in 0..now : valid' = Expiry(cl[p].pending, t)
                 /\ cl'[p].pending = IdleCall.pending]_vars

\* two refreshes race: one is halfway through its write, the token of its
\* session next to the expiry of the session before, the other one waits for
\* the lock with a different session
C20_Witness ==
    /\ mu.writer = "w1" /\ mu.wrote = 1
    /\ sid = cl["w1"].pending.sid
    /\ ~OneSession
    /\ cl["w2"].pc \in { "authStore", "reauthStore" }
    /\ cl["w2"].pending.sid \notin { "", sid }

\* the last reconcile of p, of an opted-in object, failed and will be run again
FailedRetryable(p) ==
    /\ Requeued(rec[p])
    /\ obj[rec[p].key].exists
    /\ hasRegistrationAnnotation(obj[rec[p].key])

\* the store and the managed-hosts annotation agree with the desired state of o
Converged(o) ==
    LET hosts == extractHosts(kind[o], obj[o])
        ip == resolveTargetIP(obj[o])
    IN /\ \A i \in 1..Len(hosts) : Contains(store, Entry(ip, hosts[i]))
       /\ \A h \in everManaged[o] \ SeqToSet(hosts) : NoRecordFor(h)
       /\ SeqToSet(getManagedHosts(obj[o])) = SeqToSet(hosts)

\* C21: if a reconcile of an opted-in object fails with a retryable error and
\* from then on store calls and object writes succeed, the desired state stays
\* unchanged and the scheduled retries are run, then eventually every desired
\* hostname is bound to the target address in the store, every managed
\* hostname that is no longer desired has no record, and the managed-hosts
\* annotation equals the desired set.
C21_RetryConverges ==
    \A p \in { "w1" } :
        (FailedRetryable(p) /\ budget = 0) ~> Converged(rec[p].key)

\* floor(v * 80 / 100), by its definition
Floor80(v) == CHOOSE k \in 0..v : 100 * k <= 80 * v /\ 80 * v < 100 * (k + 1)

\* C22: an authentication that advertises v seconds stores the expiry
\* floor(v*80/100) seconds after its completion, and nothing else moves the
\* expiry; an operation goes on without authenticating only before that
\* instant and with a non-empty token; at or after it, or with an empty
\* token, the operation authenticates, and it reaches its request only through
\* the stored answer of that authentication.
C22_EightyPercent ==
    [][/\ (valid' # valid \/ sid' # sid) =>
            \E p \in Procs :
              /\ cl[p].pc \in { "authStore", "reauthStore" }
              /\ cl'[p].pc \notin { "authStore", "reauthStore" }
              /\ valid' = now + Floor80(cl[p].pending.validity)
              /\ sid' = cl[p].pending.sid
       /\ \A p \in Procs :
         /\ (cl[p].pc = "ensure" /\ cl'[p] # cl[p]) =>
              IF now < valid /\ sid # ""
              THEN cl'[p].pc \in { "do", "ensure" } /\ cl'[p].pc = AfterEnsure(cl[p]).pc
              ELSE cl'[p].pc = "auth"
         /\ (cl[p].pc = "auth" /\ cl'[p] # cl[p]) => cl'[p].pc \in { "authStore", "ret" }
         /\ (cl[p].pc = "auth" /\ cl'[p].pc = "ret") => cl'[p].err # Nil]_vars

\* an operation meets a session at the very second it expires, two seconds
\* after an authentication that advertised three, and authenticates again
C22_Witness ==
    /\ cl["w1"].pc = "authStore"
    /\ sid # "" /\ valid = 2 /\ now = valid

\* C23: every operation (list, create, delete, health check) starts with the
\* check of the cached session; it comes to send a request only from a check
\* that found the session valid or from the stored answer of an
\* authentication, and a check that finds no session or an expired one goes
\* to authenticate; when that authentication fails the operation returns the
\* error at once: it sends no request from then on (none at all unless a 401
\* made it start over), and token, expiry and store are as they were.
C23_AuthBeforeRequest ==
    [][\A p \in Procs :
         /\ (cl[p].pc = "idle" /\ cl'[p].pc # "idle") =>
              cl'[p].pc = "ensure" /\ cl'[p].sent = 0
         /\ cl'[p].sent > cl[p].sent => cl[p].pc = "do"
         /\ (cl[p].pc # "do" /\ cl'[p].pc = "do") =>
              \/ cl[p].pc = "ensure" /\ valid > now /\ sid # ""
              \/ cl[p].pc = "authStore"
         /\ (cl[p].pc = "ensure" /\ cl'[p] # cl[p] /\ ~(valid > now /\ sid # "")) =>
              cl'[p].pc = "auth"
         /\ (cl[p].pc = "auth" /\ cl'[p].pc \notin { "auth", "authStore" }) =>
              /\ cl'[p].pc = "ret" /\ cl'[p].err # Nil
              /\ cl'[p].sent = cl[p].sent
              /\ cl[p].reauths = 0 => cl[p].sent = 0
              /\ sid' = sid /\ valid' = valid /\ store' = store
         /\ (cl[p].pc = "ret" /\ cl'[p] # cl[p]) => cl'[p] = IdleCall]_vars

\* a health check whose authentication failed has returned: nothing was sent
C23_Witness ==
    /\ cl["w1"].op = "health" /\ cl["w1"].pc = "ret"
    /\ cl["w1"].err # Nil /\ cl["w1"].sent = 0
    /\ sid = "" /\ valid = 0

\* the whitespace-separated fields of e, by their places: a field runs from
\* i to j when e[i..j] holds no whitespace and cannot be extended
FieldAt(e, i, j) ==
    /\ i <= j
    /\ \A k \in i..j : e[k] \notin Whitespace
    /\ i = 1 \/ e[i - 1] \in Whitespace
    /\ j = Len(e) \/ e[j + 1] \in Whitespace

FieldStarts(e) == { i \in 1..Len(e) : \E j \in i..Len(e) : FieldAt(e, i, j) }

\* the n-th field of e, counted by the fields that start before it
NthField(e, n) ==
    LET i == CHOOSE x \in FieldStarts(e) :
                 Cardinality({ y \in FieldStarts(e) : y < x }) = n - 1
        j == CHOOSE y \in i..Len(e) : FieldAt(e, i, y)
    IN SubSeq(e, i, j)

HasTwoFields(e) == Cardinality(FieldStarts(e)) >= 2

\* C24: ListRecords returns without an error, in store order, one record for
\* each store entry of at least two whitespace-separated fields, its address
\* the first field and its domain the second; entries of fewer fields are
\* left out.
C24_ListRecords ==
    \A p \in Procs :
        (cl[p].op = "list" /\ cl[p].pc = "ret") =>
            LET kept == SelectSeq(store, HasTwoFields) IN
            /\ cl[p].err = Nil
            /\ Len(cl[p].records) = Len(kept)
            /\ \A i \in 1..Len(kept) :
                 /\ cl[p].records[i].IP = NthField(kept[i], 1)
                 /\ cl[p].records[i].Domain = NthField(kept[i], 2)

\* a list of a store that mixes an entry of three fields, a malformed entry
\* and a padded entry has returned two records
C24_Witness ==
    /\ cl["w1"].op = "list" /\ cl["w1"].pc = "ret"
    /\ Len(store) = 3 /\ ~HasTwoFields(store[2])
    /\ Len(Fields(store[1])) > 2
    /\ store[3] # Entry(IP2, ApiLocal)
    /\ cl["w1"].records = << [IP |-> IP1, Domain |-> DbLocal], [IP |-> IP2, Domain |-> ApiLocal] >>

\* the entries of the store whose second field is the domain d
MatchesOf(d) == { i \in 1..Len(store) : HasTwoFields(store[i]) /\ NthField(store[i], 2) = d }

\* the "address domain" token of the first entry of the store for d
FirstToken(d) ==
    LET i == CHOOSE x \in MatchesOf(d) : \A y \in MatchesOf(d) : x <= y
    IN NthField(store[i], 1) \o << Space >> \o NthField(store[i], 2)

\* p's DeleteRecord is at its DELETE
AtDelete(p) == cl[p].pc = "do" /\ cl[p].op = "delete" /\ ~cl[p].inner

\* C25: the list of DeleteRecord(d) picks the token of the first entry of the
\* store whose domain is d, and the DELETE that follows is for that token: it
\* removes that entry and no other; when the entry is gone by then (another
\* writer removed or changed it) the store is left as it is and DeleteRecord
\* returns no error, unless the request itself failed (no answer, 401, 5xx):
\* a 404 is never returned as an error.
C25_DeleteFirstMatch ==
    [][\A p \in Procs :
         /\ (~AtDelete(p) /\ AtDelete(p)') =>
              /\ cl[p].inner /\ cl[p].pc = "do"
              /\ MatchesOf(cl[p].domain) # { }
              /\ cl'[p].entry = FirstToken(cl[p].domain)
         /\ (AtDelete(p) /\ cl'[p] # cl[p]) =>
              /\ cl'[p].entry = cl[p].entry
              /\ store' # store =>
                   /\ cl'[p].pc = "ret" /\ cl'[p].err = Nil
                   /\ \E i \in 1..Len(store) :
                        /\ store[i] = cl[p].entry
                        /\ store' = SubSeq(store, 1, i - 1) \o SubSeq(store, i + 1, Len(store))
              /\ ~Contains(store, cl[p].entry) =>
                   /\ store' = store
                   /\ cl'[p].pc \in { "ret", "reauth" }
                   /\ cl'[p].pc = "ret" =>
                        \/ cl'[p].err = Nil
                        \/ cl'[p].err.status \in { NoResponse, StatusInternalServerError }]_vars

\* DeleteRecord(app.local) listed "1.1.1.1 app.local" ahead of
\* "2.2.2.2 app.local"; another writer removed it before the DELETE, the only
\* change anybody else made; the 404 came back as success
C25_Witness ==
    /\ cl["w1"].op = "delete" /\ cl["w1"].pc = "ret" /\ cl["w1"].err = Nil
    /\ cl["w1"].entry = Entry(IP1, AppLocal)
    /\ cl["w1"].sent = 2
    /\ store = << Entry(IP2, AppLocal) >>
    /\ budget = MaxEnv - 1

\* C26: when the ListRecords at the start of a reconcile returns an error,
\* whatever it is, the reconcile ends there with that error and a retry after
\* 30 seconds; it has issued no create and no delete, the store and the
\* object are as they were, and the managed-hosts annotation is still the
\* one the reconcile fetched.
C26_ListFailure ==
    [][\A p \in Procs :
         (rec[p].pc = "list" /\ cl[p].pc = "ret" /\ cl[p].err # Nil /\ rec'[p].pc # "list") =>
            LET o == rec[p].key IN
            /\ rec'[p].pc = "done" /\ rec'[p].exit = "listError"
            /\ rec'[p].result.err = cl[p].err
            /\ rec'[p].result.requeueAfter = 30
            /\ Requeued(rec'[p])
            /\ calls[p] = << >> /\ calls'[p] = << >>
            /\ store' = store /\ obj' = obj
            /\ obj[o].exists => obj[o].managed = rec[p].ingress.managed]_vars

\* a reconcile of an object with a managed-hosts annotation ended at a list
\* that the store refused with 400
C26_Witness ==
    /\ rec["w1"].pc = "done" /\ rec["w1"].exit = "listError"
    /\ rec["w1"].result.err = APIError(StatusBadRequest)
    /\ obj["o1"].managed.ok

\* the reconcile of worker p holds the record list and is in or past its
\* sync loop
PastList(p) == rec[p].pc \in { "syncDelete", "syncCreate", "prune", "umhGet", "umhUpdate" }

\* the sync loop of worker p is over
PastSync(p) == rec[p].pc \in { "prune", "umhGet", "umhUpdate" }

\* the calls of the log k for the hostname h, in the order they were made
CallsFor(k, h) ==
    LET Hit(e) == e.domain = h IN SelectSeq(k, Hit)

\* the call without its return
Made(e) == [op |-> e.op, domain |-> e.domain, ip |-> e.ip]

OneCreate(h, t) == << [op |-> "create", domain |-> h, ip |-> t] >>

DeleteThenCreate(h, t) ==
    << [op |-> "delete", domain |-> h, ip |-> EmptyStr], [op |-> "create", domain |-> h, ip |-> t] >>

\* the calls k are the first calls of want, each made after the one before
\* it returned without error, and all of want once the loop is over
Follows(k, want, over) ==
    /\ Len(k) <= Len(want)
    /\ \A i \in 1..Len(k) : Made(k[i]) = want[i]
    /\ \A i \in 1..(Len(k) - 1) : k[i].ret = "ok"
    /\ over => Len(k) = Len(want) /\ \A i \in 1..Len(k) : k[i].ret = "ok"

\* some record of the list binds h to the address a
BoundTo(records, h, a) == \E i \in 1..Len(records) : records[i] = [IP |-> a, Domain |-> h]

\* no record of the list is of h
NotListed(records, h) == \A i \in 1..Len(records) : records[i].Domain # h

\* the address of the last record of h in the list
LastAddress(records, h) ==
    records[CHOOSE i \in 1..Len(records) :
              /\ records[i].Domain = h
              /\ \A j \in (i + 1)..Len(records) : records[j].Domain # h].IP

\* the sync calls of the desired hostname h are those of the three cases,
\* the case being chosen by the predicate same: none, one create, or a
\* delete and after its success a create
SyncCase(p, h, same) ==
    LET r == rec[p]
        k == CallsFor(calls[p], h)
        over == PastSync(p) \/ \E j \in 1..Len(r.desiredHosts) : j < r.i /\ r.desiredHosts[j] = h
    IN IF NotListed(r.currentRecords, h) THEN Follows(k, OneCreate(h, r.targetIP), over)
       ELSE IF same THEN k = << >>
       ELSE Follows(k, DeleteThenCreate(h, r.targetIP), over)

\* the desired hostnames are dealt with in their order: a call for one of
\* them is made only when the calls of those before it are complete
InExtractorOrder(p) ==
    LET r == rec[p] IN
    \A i \in 1..Len(calls[p]) :
        \A a, b \in 1..Len(r.desiredHosts) :
            (a < b /\ calls[p][i].domain = r.desiredHosts[b]) =>
                \A j \in 1..Len(calls[p]) :
                    calls[p][j].domain = r.desiredHosts[a] => j < i

\* C27 as stated: a desired hostname that some record of the fetched list
\* binds to the target address gets no store call; an absent one gets one
\* create and no delete; one bound to another address gets a delete and,
\* after its success, a create.
C27_AsStated ==
    \A p \in Procs :
        PastList(p) =>
            /\ InExtractorOrder(p)
            /\ \A j \in 1..Len(rec[p].desiredHosts) :
                 LET h == rec[p].desiredHosts[j] IN
                 SyncCase(p, h, BoundTo(rec[p].currentRecords, h, rec[p].targetIP))

\* C27: for each desired hostname, in extractor order, compared with the
\* record list fetched at the start of the reconcile, where the last record
\* of a hostname in the list is the one that counts: bound to the target
\* address, no store call; absent, one create and no delete; bound to
\* another address, one delete of the hostname and, only after it succeeded,
\* one create.
C27_SyncPerHost ==
    \A p \in Procs :
        PastList(p) =>
            /\ InExtractorOrder(p)
            /\ \A j \in 1..Len(rec[p].desiredHosts) :
                 LET h == rec[p].desiredHosts[j] IN
                 SyncCase(p, h, NotListed(rec[p].currentRecords, h)
                                \/ LastAddress(rec[p].currentRecords, h) = rec[p].targetIP)

\* the list held app.local twice, first at the target address and last at
\* another; the sync loop deleted and created app.local and is over
C27_Witness ==
    /\ PastSync("w1")
    /\ rec["w1"].currentRecords = << [IP |-> DefaultTargetIP, Domain |-> AppLocal],
                                     [IP |-> IP2, Domain |-> AppLocal] >>
    /\ rec["w1"].targetIP = DefaultTargetIP
    /\ Len(CallsFor(calls["w1"], AppLocal)) = 2

\* the step makes a store call of worker p out of the loop whose pc is phase
Makes(p, phase) == Len(calls'[p]) = Len(calls[p]) + 1 /\ rec'[p].pc = phase

\* the deletes that the log k holds for hostnames outside hosts
DeletesOutside(k, hosts) ==
    LET Hit(e) == e.op = "delete" /\ ~Contains(hosts, e.domain) IN SelectSeq(k, Hit)

\* C28: within one reconcile the creates and deletes of the sync loop come
\* first, then the deletes of the prune loop, then the managed-hosts write,
\* and no step goes back; the prune loop deletes the hostnames of the
\* managed-hosts annotation the reconcile fetched that are not desired, each
\* once when the loop runs to its end, and no other hostname.
C28_Phases ==
    [][\A p \in Procs :
         LET r == rec[p]
             o == r.key
             prior == SeqToSet(getManagedHosts(r.ingress))
             stale == prior \ SeqToSet(r.desiredHosts)
             last == calls'[p][Len(calls'[p])]
         IN /\ Len(calls'[p]) > Len(calls[p]) =>
                  \/ Makes(p, "syncDelete") \/ Makes(p, "syncCreate")
                  \/ Makes(p, "prune") \/ Makes(p, "cleanup")
            /\ (Makes(p, "syncDelete") \/ Makes(p, "syncCreate")) =>
                  /\ r.pc \in { "list", "syncDelete", "syncCreate" }
                  /\ Contains(r.desiredHosts, last.domain)
            /\ r.pc = "prune" => rec'[p].pc \in { "prune", "umhGet", "done" }
            /\ r.pc \in { "umhGet", "umhUpdate" } =>
                  /\ rec'[p].pc \in { "umhGet", "umhUpdate", "done" }
                  /\ calls'[p] = calls[p]
            /\ (obj[o].exists /\ obj'[o].exists /\ obj[o].managed # obj'[o].managed) =>
                  \E q \in Procs : rec[q].key = o /\ rec[q].pc = "umhUpdate"
            /\ Makes(p, "prune") =>
                  /\ r.pc \in { "list", "syncCreate", "prune" }
                  /\ last.op = "delete" /\ last.domain \in stale
                  /\ \A i \in 1..Len(calls[p]) : calls[p][i].domain # last.domain
            /\ (rec'[p].pc = "umhGet" /\ r.pc # "umhGet") =>
                  /\ r.pc \in { "list", "syncCreate", "prune" }
                  /\ \A i \in 1..Len(calls'[p]) : calls'[p][i].ret = "ok"
                  /\ { e.domain : e \in SeqToSet(DeletesOutside(calls'[p], r.desiredHosts)) } = stale
                  /\ Len(DeletesOutside(calls'[p], r.desiredHosts)) = Cardinality(stale)]_vars

\* a reconcile created api.local in its sync loop, then deleted the stale
\* app.local in its prune loop, and is at the managed-hosts write
C28_Witness ==
    /\ rec["w1"].pc = "umhUpdate"
    /\ rec["w1"].desiredHosts = << ApiLocal >>
    /\ Len(calls["w1"]) = 2
    /\ calls["w1"][1].op = "create" /\ calls["w1"][1].domain = ApiLocal
    /\ calls["w1"][2].op = "delete" /\ calls["w1"][2].domain = AppLocal
    /\ obj["o1"].managed = Value(AppLocal)

\* a store call of the reconcile of worker p has returned an error and the
\* step takes that return
TakesFailure(p) ==
    /\ rec[p].pc \in { "list", "syncDelete", "syncCreate", "prune", "cleanup" }
    /\ cl[p].pc = "ret" /\ cl[p].err # Nil
    /\ rec'[p].pc # rec[p].pc

\* C29: a reconcile writes the managed-hosts annotation only if every store
\* call it made returned without error; the step that takes the first
\* failed store call, retryable or not, ends the reconcile: no further store
\* call is made, the store and the object are left alone and the annotation
\* is the one the reconcile fetched.
C29_WriteOnlyAfterSuccess ==
    [][\A p \in Procs :
         LET r == rec[p]
             o == r.key
         IN /\ TakesFailure(p) =>
                  /\ rec'[p].pc = "done"
                  /\ Len(calls'[p]) = Len(calls[p])
                  /\ \A i \in 1..(Len(calls[p]) - 1) : calls[p][i].ret = "ok"
                  /\ store' = store /\ obj' = obj
                  /\ obj[o].exists => obj[o].managed = r.ingress.managed
            /\ (r.pc = "umhUpdate" /\ obj[o].exists /\ obj'[o].exists
                /\ obj'[o].managed # obj[o].managed) =>
                  /\ \A i \in 1..Len(calls[p]) : calls[p][i].ret = "ok"
            /\ (rec'[p].pc = "done" /\ r.pc # "done" /\ ~TakesFailure(p)) =>
                  \A i \in 1..Len(calls'[p]) : calls'[p][i].ret = "ok"]_vars

\* the second store call of a reconcile, a create, was refused with 400: the
\* reconcile is over without a retry and the annotation is the prior one
C29_Witness ==
    /\ rec["w1"].pc = "done" /\ rec["w1"].exit = "apiError"
    /\ rec["w1"].result = Result(0, Nil)
    /\ Len(calls["w1"]) = 2
    /\ calls["w1"][1].ret = "ok"
    /\ calls["w1"][2].op = "create" /\ calls["w1"][2].ret = "error"
    /\ obj["o1"].managed = Value(AppLocal)
    /\ rec["w1"].desiredHosts = << AppLocal, ApiLocal >>

\* worker p is at a write of its routing object
AtWrite(p) == rec[p].pc \in { "addFinalizer", "removeFinalizer", "umhUpdate" }

\* the copy worker p writes from
WrittenCopy(p) == IF rec[p].pc = "umhUpdate" THEN rec[p].fresh ELSE rec[p].ingress

\* the exits of a reconcile at a failed write of the object
WriteErrors == { "addFinalizerError", "removeFinalizerError", "managedHostsError" }

\* C30: a write of the routing object that fails (adding the finalizer,
\* removing it, persisting the managed-hosts annotation), and every write
\* from a copy that somebody else's write has made stale, ends the reconcile
\* with an error and leaves the object alone; the key is queued again, and
\* the reconcile that follows starts at the initial fetch with nothing kept
\* of the failed one; a failed managed-hosts write asks for the retry after
\* 10 seconds.
C30_WriteFailure ==
    [][\A p \in Procs :
         LET r == rec[p]
             o == r.key
         IN /\ (AtWrite(p) /\ rec'[p].pc # r.pc /\ obj[o].exists /\ ~WrittenCopy(p).current) =>
                  /\ rec'[p].exit \in WriteErrors
                  /\ rec'[p].result.err \in { K8sError("Conflict"), K8sError("Other") }
            /\ (AtWrite(p) /\ rec'[p].pc = "done" /\ rec'[p].exit \in WriteErrors) =>
                  /\ obj' = obj
                  /\ rec'[p].result.err # Nil
                  /\ Requeued(rec'[p])
            /\ (r.pc \in { "umhGet", "umhUpdate" } /\ rec'[p].pc = "done"
                /\ rec'[p].exit # "ok") =>
                  /\ rec'[p].result.err # Nil
                  /\ rec'[p].result.requeueAfter = 10
            /\ (r.pc = "done" /\ r.exit \in WriteErrors /\ rec'[p].pc # "done") =>
                  /\ rec'[p] = [IdleRec EXCEPT !.pc = "get", !.key = o]
                  /\ cl'[p] = IdleCall
                  /\ calls'[p] = << >>]_vars

\* the managed-hosts write met a conflict: the reconcile ended with the
\* error and a retry after 10 seconds, the store calls done, the annotation
\* not written
C30_Witness ==
    /\ rec["w1"].pc = "done" /\ rec["w1"].exit = "managedHostsError"
    /\ rec["w1"].result = Result(10, K8sError("Conflict"))
    /\ Len(calls["w1"]) = 1 /\ calls["w1"][1].ret = "ok"
    /\ ~obj["o1"].managed.ok

\* C31: at the step that takes a failed store call of the sync, prune or
\* cleanup loop, the reconcile is queued again exactly when the status the
\* store returned is one the client classifies as retryable, also when the
\* status came back wrapped from the authentication exchange or from the
\* list inside DeleteRecord.
C31_DecisionFollowsClassification ==
    [][\A p \in Procs :
         (TakesFailure(p) /\ rec[p].pc \in { "syncDelete", "syncCreate", "prune", "cleanup" }) =>
            (Requeued(rec'[p]) <=> IsRetryable(cl[p].err))]_vars

\* worker p is at a fetch of its object: the initial Get, the Get after the
\* finalizer was added, the Get of updateManagedHosts
AtFetch(p) == rec[p].pc \in { "get", "refetch", "umhGet" }

\* C32: a fetch that finds the object missing (the read itself did not
\* fail) ends the reconcile as a success, with no error and no retry, at
\* each of the three fetches.
C32_MissingIsSuccess ==
    [][\A p \in Procs :
         (AtFetch(p) /\ ~obj[rec[p].key].exists /\ rec'[p].pc # rec[p].pc
          /\ rec'[p].result.err # K8sError("Other")) =>
            /\ rec'[p].pc = "done"
            /\ rec'[p].result = Result(0, Nil)]_vars

\* the step takes the finalizer from object o, or the object with it
LosesFinalizer(o) ==
    /\ obj[o].exists /\ obj[o].finalizer
    /\ ~obj'[o].exists \/ ~obj'[o].finalizer

\* worker p reconciles o on the cleanup path: the object it fetched carries
\* the finalizer and either the deletion marker or no opt-in
OnCleanupPath(p, o) ==
    /\ rec[p].key = o
    /\ rec[p].ingress.finalizer
    /\ rec[p].ingress.deleting \/ ~hasRegistrationAnnotation(rec[p].ingress)

\* C33: an object loses the finalizer only by the Update at the end of the
\* cleanup path, in a reconcile that fetched the object with the finalizer
\* and with the deletion marker or without the opt-in, and the object still
\* is as that reconcile fetched it; a reconcile that fetched it opted in and
\* not deleting never removes the finalizer.
C33_OnlyCleanupRemoves ==
    [][\A o \in Objs :
         LosesFinalizer(o) =>
            \E p \in Procs :
                /\ rec[p].pc = "removeFinalizer"
                /\ rec'[p].exit = "cleanedUp"
                /\ OnCleanupPath(p, o)
                /\ obj[o].deleting = rec[p].ingress.deleting
                /\ obj[o].register = rec[p].ingress.register]_vars

\* an object that opted out has had its finalizer removed and lives on
C33_Witness ==
    /\ rec["w1"].pc = "done" /\ rec["w1"].exit = "cleanedUp"
    /\ obj["o1"].exists /\ ~obj["o1"].finalizer /\ ~obj["o1"].deleting
    /\ ~hasRegistrationAnnotation(obj["o1"])
    /\ Len(calls["w1"]) = 1 /\ calls["w1"][1].op = "delete"

\* the step logs a CreateRecord of worker p
MakesCreate(p) ==
    /\ Len(calls'[p]) = Len(calls[p]) + 1
    /\ calls'[p][Len(calls'[p])].op = "create"

\* the step puts the finalizer on the object of worker p
AddsFinalizer(p) ==
    LET o == rec[p].key IN
    /\ rec[p].pc = "addFinalizer"
    /\ obj[o].exists /\ ~obj[o].finalizer
    /\ obj'[o].exists /\ obj'[o].finalizer

\* C34: as stated, a reconcile that holds a fetched copy of its object with
\* the deletion marker, from whichever of its fetches, adds no finalizer
\* and issues no create.
C34_AsStated ==
    [][\A p \in Procs :
         (Running(rec[p]) /\ rec[p].ingress.exists /\ rec[p].ingress.deleting) =>
            ~MakesCreate(p) /\ ~AddsFinalizer(p)]_vars

\* what does hold: a reconcile whose initial fetch returns the object with
\* the deletion marker goes to the cleanup path at once, whatever the opt-in
\* annotation and the hostnames are, and on that path it adds no finalizer
\* and issues no create
DeletingAtInitialFetch ==
    [][\A p \in Procs :
         LET r == rec[p]
             o == r.key
         IN /\ (r.pc = "get" /\ obj[o].exists /\ obj[o].deleting /\ rec'[p].pc # "get") =>
                  /\ rec'[p].pc \in { "cleanup", "removeFinalizer", "done" }
                  /\ ~MakesCreate(p)
                  /\ obj' = obj
            /\ (r.pc \in { "cleanup", "removeFinalizer" } /\ r.ingress.deleting) =>
                  /\ rec'[p].pc \in { "cleanup", "removeFinalizer", "done" }
                  /\ ~MakesCreate(p) /\ ~AddsFinalizer(p)
                  /\ \A i \in 1..Len(calls[p]) : calls[p][i].op = "delete"]_vars

(***************************************************************************)
(* SpecPair: two objects with disjoint hostnames, reconciled by two        *)
(* workers at the same time against one store and one session; users may   *)
(* delete the objects                                                      *)
(***************************************************************************)
\* o1 is new and wants app.local; o2 was reconciled with db.local before and
\* wants api.local now
PairObject(o) ==
    IF o = "o1" THEN NewObject(Value(Str("true")), Absent, Absent, << AppLocal >>)
    ELSE [NewObject(Value(Str("true")), Absent, Absent, << ApiLocal >>)
             EXCEPT !.finalizer = TRUE, !.managed = Value(DbLocal)]

\* the store holds the record of o2's earlier reconcile, and maybe a record
\* of app.local that another writer bound to another address
PairStores ==
    { << Entry(DefaultTargetIP, DbLocal) >>,
      << Entry(IP2, AppLocal), Entry(DefaultTargetIP, DbLocal) >> }

InitPair ==
    /\ \E k \in Kinds : kind = [o \in Objs |-> k]
    /\ obj = [o \in Objs |-> PairObject(o)]
    /\ store \in PairStores
    /\ sid = ""
    /\ valid = 0
    /\ now = 0
    /\ rec = [p \in Procs |-> IdleRec]
    /\ cl = [p \in Procs |-> IdleCall]
    /\ calls = [p \in Procs |-> << >>]
    /\ everManaged = [o \in Objs |-> IF o = "o2" THEN { DbLocal } ELSE { }]
    /\ hist = [p \in Procs |-> InitHist]
    /\ budget = MaxEnv
    /\ arg = 0
    /\ out = "none"
    /\ mu = NoLock

\* a step of worker p: of its reconcile or of the client call it is in
PairStep(p) ==
    \/ Reconcile_Get(p, { "none" })
    \/ Reconcile_AddFinalizer(p, { "none" })
    \/ Reconcile_Refetch(p, { "none" })
    \/ Reconcile_List(p)
    \/ Reconcile_SyncDelete(p)
    \/ Reconcile_SyncCreate(p)
    \/ Reconcile_Prune(p)
    \/ updateManagedHosts_Get(p, { "none" })
    \/ updateManagedHosts_Update(p, { "none" })
    \/ handleDeletion_Delete(p)
    \/ handleDeletion_Update(p, { "none" })
    \/ ensureAuthenticated(p)
    \/ authenticate_Do(p, { StatusOK }, SIDs, { 300 })
    \/ authenticate_Store(p)
    \/ ListRecords_Do(p, { StatusOK })
    \/ CreateRecord_Do(p, { StatusCreated, StatusInternalServerError })
    \/ DeleteRecord_Do(p, { StatusNoContent, StatusNotFound })

NextPair ==
    \/ StartReconcile("w1", "o1", FALSE)
    \/ StartReconcile("w1", "o2", FALSE)
    \/ StartReconcile("w2", "o1", FALSE)
    \/ StartReconcile("w2", "o2", FALSE)
    \/ PairStep("w1")
    \/ PairStep("w2")
    \/ UserDelete("o1")
    \/ UserDelete("o2")

SpecPair == InitPair /\ [][NextPair]_vars

\* the hostnames a reconcile with the frame r may touch: its desired
\* hostnames and those of the managed-hosts annotation it fetched
OwnHosts(r) == SeqToSet(r.desiredHosts) \cup SeqToSet(getManagedHosts(r.ingress))

\* the hostnames object o claims: those its spec and annotations ask for and
\* those of its managed-hosts annotation
ClaimedBy(o) ==
    IF ~obj[o].exists THEN { }
    ELSE SeqToSet(extractHosts(kind[o], obj[o])) \cup SeqToSet(getManagedHosts(obj[o]))

\* the hostname of a store entry
DomainOf(e) == ParseHosts(<< e >>)[1].Domain

\* the entries the step puts into the store or takes out of it
Changed == { e \in SeqToSet(store) \cup SeqToSet(store') : Contains(store, e) # Contains(store', e) }

\* C35: every create or delete a reconcile issues is for a hostname among
\* its desired hostnames or in the managed-hosts annotation it fetched; and
\* with two objects of disjoint hostnames reconciled at the same time, every
\* change of a store entry is made by a client call of a reconcile that may
\* touch the entry's hostname, and an entry whose hostname an object claims
\* is changed only by a reconcile of that object.
C35_OwnHostsOnly ==
    [][/\ \A p \in Procs :
            Len(calls'[p]) > Len(calls[p]) =>
               calls'[p][Len(calls'[p])].domain \in OwnHosts(rec'[p])
       /\ \A e \in Changed :
            /\ \E p \in Procs :
                 /\ cl'[p] # cl[p]
                 /\ cl[p].domain = DomainOf(e)
                 /\ DomainOf(e) \in OwnHosts(rec[p])
            /\ \A o \in Objs :
                 DomainOf(e) \in ClaimedBy(o) =>
                    \E p \in Procs : cl'[p] # cl[p] /\ rec[p].key = o]_vars

\* the hostnames the two objects claim stay disjoint
PairDisjoint == ClaimedBy("o1") \cap ClaimedBy("o2") = { }

\* both workers are in a store call at the same time, one deleting for o1
\* and one for o2, and the store already holds o1's new record
C35_Witness ==
    /\ rec["w1"].key = "o1" /\ rec["w2"].key = "o2"
    /\ rec["w2"].pc = "prune" /\ cl["w2"].op = "delete" /\ cl["w2"].pc # "ret"
    /\ rec["w1"].pc = "syncCreate" /\ cl["w1"].pc = "ret" /\ cl["w1"].err = Nil
    /\ Contains(store, Entry(DefaultTargetIP, AppLocal))
    /\ ~Contains(store, Entry(IP2, AppLocal))
    /\ Contains(store, Entry(DefaultTargetIP, DbLocal))

(***************************************************************************)
(* SpecSole: one object and a store that starts empty and that only the    *)
(* reconciles of that object write, so that every record the store holds   *)
(* was created for the object; the store and the API server may fail, the  *)
(* user edits, opts out and deletes                                        *)
(***************************************************************************)
InitSole ==
    /\ \E k \in Kinds, spec \in SpecInputs :
         /\ kind = [o \in Objs |-> k]
         /\ obj = [o \in Objs |->
                     IF o = "o1" THEN NewObject(Value(Str("true")), Absent, Absent, spec)
                     ELSE NoObject]
    /\ store = << >>
    /\ sid = ""
    /\ valid = 0
    /\ now = 0
    /\ rec = [p \in Procs |-> IdleRec]
    /\ cl = [p \in Procs |-> IdleCall]
    /\ calls = [p \in Procs |-> << >>]
    /\ everManaged = [o \in Objs |-> { }]
    /\ hist = [p \in Procs |-> InitHist]
    /\ budget = MaxEnv
    /\ arg = 0
    /\ out = "none"
    /\ mu = NoLock

NextSole ==
    \/ StartReconcile("w1", "o1", FALSE)
    \/ Reconcile_Get("w1", K8sFaults)
    \/ Reconcile_AddFinalizer("w1", K8sFaults)
    \/ Reconcile_Refetch("w1", K8sFaults)
    \/ Reconcile_List("w1")
    \/ Reconcile_SyncDelete("w1")
    \/ Reconcile_SyncCreate("w1")
    \/ Reconcile_Prune("w1")
    \/ updateManagedHosts_Get("w1", K8sFaults)
    \/ updateManagedHosts_Update("w1", K8sFaults)
    \/ handleDeletion_Delete("w1")
    \/ handleDeletion_Update("w1", K8sFaults)
    \/ ensureAuthenticated("w1")
    \/ authenticate_Do("w1", AuthStatuses, SIDs, Validities)
    \/ authenticate_Store("w1")
    \/ ListRecords_Do("w1", ListStatuses)
    \/ CreateRecord_Do("w1", CreateStatuses)
    \/ DeleteRecord_Do("w1", DeleteStatuses)
    \/ UserEdit("o1", RegisterInputs, { Absent, Value(IP2) }, OverrideInputs, SpecInputs)
    \/ UserDelete("o1")

SpecSole == InitSole /\ [][NextSole]_vars

\* C36: when the cleanup removes the finalizer from the object, the store
\* holds no record that was created for it; where the store started empty
\* and only the reconciles of the object write to it, that is an empty store.
C36_NothingLeftBehind ==
    [][LosesFinalizer("o1") => store' = << >>]_vars

\* C37: an object with the deletion marker and the finalizer loses the
\* finalizer in the end because no cleanup gets stuck: a reconcile that ends
\* at a failed cleanup delete, the object still carrying the marker and the
\* finalizer, has returned an error or scheduled a retry.
C37_CleanupNeverStuck ==
    \A p \in Procs :
        LET o == rec[p].key IN
        (/\ rec[p].pc = "done" /\ rec[p].exit = "cleanupError"
         /\ obj[o].exists /\ obj[o].deleting /\ obj[o].finalizer) =>
            Requeued(rec[p])

\* the frames a and b are at the same place with the same desired state,
\* records and result (the hosts a route reconciler was handed apart)
SameFrame(a, b) == [a EXCEPT !.extractedHosts = << >>] = [b EXCEPT !.extractedHosts = << >>]

\* worker p leaves the fetch at pc with the object read
Fetches(p, pc) ==
    /\ rec[p].pc = pc /\ rec'[p].pc # pc
    /\ obj[rec[p].key].exists
    /\ rec'[p].result.err = Nil

\* C38: from the same frame, object and call log, the reconciler of every
\* kind goes on after a fetch as the Ingress reconciler does: to the same
\* place with the same desired hostnames and address, the same store call
\* entered, the same call log and the same result, after the initial fetch
\* and after the re-fetch that follows the finalizer update, whatever
\* another actor did to the object in between.
C38_RouteAsIngress ==
    [][\A p \in Procs :
         LET o == rec[p].key
             r == [rec[p] EXCEPT !.ingress = Fetched(o), !.extractedHosts = << >>]
         IN /\ Fetches(p, "get") =>
                 LET ing == Dispatch(r, calls[p], "Ingress") IN
                 /\ SameFrame(rec'[p], ing.r)
                 /\ cl'[p] = ing.c /\ calls'[p] = ing.k
            /\ Fetches(p, "refetch") =>
                 LET ing == DesiredState(r, calls[p], "Ingress") IN
                 /\ SameFrame(rec'[p], ing.r)
                 /\ cl'[p] = ing.c /\ calls'[p] = ing.k]_vars

\* C39: when the cleanup of an object that opted out has removed the
\* finalizer, the object that lives on has no managed-hosts annotation, or
\* an empty one.
C39_CleanupClearsManaged ==
    [][\A o \in Objs :
         (LosesFinalizer(o) /\ obj'[o].exists) => getManagedHosts(obj'[o]) = << >>]_vars

====
